---- MODULE Spec2Model ----
(***************************************************************************)
(* Debt simplification of SpliFairMobile: getSimplifiedDebts               *)
(* (src/unnamed/part_006, lines 1807-2053).                                *)
(*                                                                         *)
(* Amounts are JavaScript numbers holding money.  They are modelled as     *)
(* integers counted in thousandths of the currency unit, so that 0.01 is   *)
(* Cent and amounts below one cent exist.  User ids are strings compared   *)
(* with <; they are modelled as the integers 1..NumUsers with the same     *)
(* order.  Objects and Sets keep their keys in insertion order, which the  *)
(* model keeps as sequences.                                               *)
(***************************************************************************)
EXTENDS Integers, Sequences, FiniteSets, TLC

Cent == 10

NumUsers == 3

MaxDebts == 2

WideUsers == 5

WideDebts == 3

\* the largest count of tasks or shares in the metrics handed to a scorer
MaxCount == 2

\* the members of the group whose performance is listed
MaxMembers == 2

\* the most rows the tasks table holds
MaxTasks == 2

\* the most expense shares of one member
MaxShares == 1

\* the most rows of expense_shares when a settlement is recorded
MaxSettleShares == 3

\* the calls of one operation made at once on one task
MaxCalls == 3

\* the most assignments of the task that is rotated
MaxAssignments == 3

Users == 1..NumUsers

Currencies == {"USD", "EUR"}

\* the key a debt without currency lands under (currency is undefined)
NoCurrency == "undefined"

\* amounts of the debt records: a fifth of a cent, half a cent, three cents
Amounts == {2, 5, 3 * Cent}

\* whole amounts for the larger groups
WideAmounts == {2 * Cent, 3 * Cent}

\* amounts a malformed record may carry as well
AnyAmounts == {-2 * Cent, 2 * Cent}

\* getSimplifiedDebts
VARIABLES debts, pc, debtGraph, currencies, netDebts, todo, balances,
          creditors, debtors, optimizedSettlements, result

\* the queries getSimplifiedDebts has sent to the storage, in order, each
\* with whether it came back with an error
VARIABLE queries

\* calculatePerformanceScore and calculateExpenseScore: the metrics handed in
\* and the score returned
VARIABLES metrics, computedScore

\* calculateRoommateScore: the rows the queries find, where the call stands,
\* its locals, what it returns, and which of its queries failed
VARIABLES history, roommatePc, components, roommateScore, failedQueries

debtVars == <<debts, pc, debtGraph, currencies, netDebts, todo, balances,
              creditors, debtors, optimizedSettlements, result, queries>>

scoreVars == <<metrics, computedScore>>

roommateVars == <<history, roommatePc, components, roommateScore, failedQueries>>

\* the task tables of one group (tasks, task_completions counted per user,
\* verified issues and accepted swaps per user, user_task_stats), whether
\* task operations are being called, and what the last call of
\* getRoommateTaskPerformance returned
VARIABLES taskPc, tasks, taskCompletions, taskSide, userTaskStats,
          taskPerformance

taskVars == <<taskPc, tasks, taskCompletions, taskSide, userTaskStats,
              taskPerformance>>

\* getExpensePerformance: where the call stands, the expense_shares rows and
\* the number of created expenses of each member, and what the call returned
VARIABLES expensePc, expenseShares, createdExpenses, expensePerformance

expenseVars == <<expensePc, expenseShares, createdExpenses, expensePerformance>>

\* recordSettlement: where the call stands, its argument, the expense_shares
\* table now and as it was when the call began, the rows the query gave, the
\* ids collected for the paid update, the expense_settlements table, what
\* the call returned and which storage step failed
VARIABLES settlePc, settlementData, expense_shares, sharesBefore, fromUserShares,
          paidShareIds, expenseSettlements, settleResult, failedStep

settleVars == <<settlePc, settlementData, expense_shares, sharesBefore, fromUserShares,
                paidShareIds, expenseSettlements, settleResult, failedStep>>

\* markTaskComplete called several times at once on one task: the status of
\* the task, the number of task_completions rows of the task, and for every
\* call whether the caller is the assigned user, where it stands and what
\* it returned
VARIABLES taskStatus, completionRows, callByAssignee, completePc, completeResult

completeVars == <<taskStatus, completionRows, callByAssignee, completePc,
                  completeResult>>

\* rotateTaskAssignment called several times at once on one task: is_current
\* of the task_assignments rows in rotation order, the places that have been
\* current, and for every call where it stands, the index it found and what
\* it returned
VARIABLES assignments, wasCurrent, rotatePc, currentIndex, rotateResult

rotateVars == <<assignments, wasCurrent, rotatePc, currentIndex, rotateResult>>

\* the operations that write to the tables in several steps
writerVars == <<settleVars, completeVars, rotateVars>>

\* what getSimplifiedDebts never touches
otherVars == <<scoreVars, roommateVars, taskVars, expenseVars, writerVars>>

vars == <<debtVars, otherVars>>

----------------------------------------------------------------------------
(* Helpers *)

Max(a, b) == IF a >= b THEN a ELSE b

Min(a, b) == IF a <= b THEN a ELSE b

Abs(a) == IF a >= 0 THEN a ELSE -a

\* Math.round(x * 100) / 100: to the nearest cent, halves upwards
RoundCent(x) == ((x + Cent \div 2) \div Cent) * Cent

\* the lists of at most n elements of S
ListsOf(S, n) == UNION {[1..k -> S] : k \in 0..n}

\* a key inserted into an object or Set: a new key goes last, an old one stays
AddKey(s, k) == IF \E i \in 1..Len(s) : s[i] = k THEN s ELSE Append(s, k)

RECURSIVE FlatMap(_, _)
FlatMap(F(_), s) == IF s = <<>> THEN <<>> ELSE F(Head(s)) \o FlatMap(F, Tail(s))

RECURSIVE FoldLeft(_, _, _)
FoldLeft(F(_, _), acc, s) ==
    IF s = <<>> THEN acc ELSE FoldLeft(F, F(acc, Head(s)), Tail(s))

----------------------------------------------------------------------------
(* Step 2: the debt graph, lines 1821-1862 *)

\* debtGraph with its keys and an empty object under each (lines 1822-1832)
GraphOfKeys(keys) ==
    [keys |-> keys, to |-> [u \in {keys[i] : i \in 1..Len(keys)} |-> <<>>],
     amt |-> << >>]

EmptyGraph == GraphOfKeys(<<>>)

\* lines 1826-1836: every user of a debt becomes a key of debtGraph
InitGraphKeys(ds) ==
    FoldLeft(LAMBDA acc, d : AddKey(AddKey(acc, d.from_user_id), d.to_user_id),
             <<>>, ds)

\* line 1835: currencies.add(debt.currency)
CurrenciesOf(ds) == FoldLeft(LAMBDA acc, d : AddKey(acc, d.currency), <<>>, ds)

HasEntry(g, f, t, c) == <<f, t, c>> \in DOMAIN g.amt

\* lines 1840-1861: one debt added to the graph
AddDebtToGraph(g, d) ==
    LET f == d.from_user_id
        t == d.to_user_id
        c == d.currency
        to1 == [g.to EXCEPT ![f] = AddKey(@, t)]
        to2 == [to1 EXCEPT ![t] = AddKey(@, f)]
        a1 == IF HasEntry(g, f, t, c) THEN g.amt ELSE g.amt @@ (<<f, t, c>> :> 0)
        a2 == IF <<t, f, c>> \in DOMAIN a1 THEN a1 ELSE a1 @@ (<<t, f, c>> :> 0)
        a3 == [a2 EXCEPT ![<<f, t, c>>] = @ + d.amount]
        a4 == [a3 EXCEPT ![<<t, f, c>>] = @ - d.amount]
    IN  [keys |-> g.keys, to |-> to2, amt |-> a4]

BuildDebtGraph(ds) ==
    FoldLeft(AddDebtToGraph, GraphOfKeys(InitGraphKeys(ds)), ds)

----------------------------------------------------------------------------
(* Step 3: net debts, lines 1864-1900 *)

NetDebt(f, t, a, c) == [from_user_id |-> f, to_user_id |-> t, amount |-> a, currency |-> c]

\* debtGraph[toUser]?.[fromUser]?.[currency] || 0
ReverseOrZero(g, f, t, c) == IF HasEntry(g, t, f, c) THEN g.amt[<<t, f, c>>] ELSE 0

\* line 1874: only positive debts, and each pair once
IsNetCandidate(g, f, t, c) ==
    /\ HasEntry(g, f, t, c)
    /\ g.amt[<<f, t, c>>] > 0
    /\ f < t

\* line 1876
NetAmount(g, f, t, c) == Max(0, g.amt[<<f, t, c>>] - ReverseOrZero(g, f, t, c))

\* NetDebtsOfEntry without the test of line 1874: an entry of either sign
\* gives a net debt, a negative one in the other direction
NetDebtsOfEntryEitherSign(g, f, t, c) ==
    IF HasEntry(g, f, t, c) /\ Abs(g.amt[<<f, t, c>>]) >= Cent
    THEN LET flip == g.amt[<<f, t, c>>] < 0
         IN  << NetDebt(IF flip THEN t ELSE f, IF flip THEN f ELSE t,
                        RoundCent(Abs(g.amt[<<f, t, c>>])), c) >>
    ELSE <<>>

\* NetDebtsOfEntry without the threshold of line 1879
NetDebtsOfEntryNoThreshold(g, f, t, c) ==
    IF IsNetCandidate(g, f, t, c)
    THEN << NetDebt(f, t, RoundCent(NetAmount(g, f, t, c)), c) >>
    ELSE <<>>

\* lines 1871-1897: the net debts one entry debtGraph[fromUser][toUser] gives
NetDebtsOfEntry(g, f, t, c) ==
    IF IsNetCandidate(g, f, t, c) /\ NetAmount(g, f, t, c) >= Cent
    THEN LET flip == ReverseOrZero(g, f, t, c) > g.amt[<<f, t, c>>]
         IN  << NetDebt(IF flip THEN t ELSE f, IF flip THEN f ELSE t,
                        RoundCent(NetAmount(g, f, t, c)), c) >>
    ELSE <<>>

\* lines 1868-1900
ResolveNetDebts(g, curs) ==
    FlatMap(LAMBDA c :
              FlatMap(LAMBDA f :
                        FlatMap(LAMBDA t : NetDebtsOfEntry(g, f, t, c), g.to[f]),
                      g.keys),
            curs)

\* the netting of a debt list: steps 2 and 3 together
Netting(ds) == ResolveNetDebts(BuildDebtGraph(ds), CurrenciesOf(ds))

----------------------------------------------------------------------------
(* Step 4: the optimization of one currency, lines 1907-1976 *)

Party(u, a) == [id |-> u, amount |-> a]

IndexOf(s, u) == CHOOSE i \in 1..Len(s) : s[i].id = u

\* balances[u] += delta, the key created at 0 when missing (lines 1913-1917)
AddToBalance(bs, u, delta) ==
    LET b1 == IF \E i \in 1..Len(bs) : bs[i].id = u THEN bs ELSE Append(bs, Party(u, 0))
    IN  [b1 EXCEPT ![IndexOf(b1, u)].amount = @ + delta]

\* ComputeBalances without the credit of line 1917
ComputeBalancesDebitOnly(nds, c) ==
    FoldLeft(LAMBDA bs, d :
               IF d.currency # c THEN bs
               ELSE AddToBalance(AddToBalance(bs, d.from_user_id, -d.amount),
                                 d.to_user_id, 0),
             <<>>, nds)

\* ComputeBalances without the currency test of line 1911
ComputeBalancesAnyCurrency(nds, c) ==
    FoldLeft(LAMBDA bs, d :
               AddToBalance(AddToBalance(bs, d.from_user_id, -d.amount),
                            d.to_user_id, d.amount),
             <<>>, nds)

\* lines 1909-1918: the balances of one currency, in insertion order
ComputeBalances(nds, c) ==
    FoldLeft(LAMBDA bs, d :
               IF d.currency # c THEN bs
               ELSE AddToBalance(AddToBalance(bs, d.from_user_id, -d.amount),
                                 d.to_user_id, d.amount),
             <<>>, nds)

\* Array.prototype.sort((a, b) => b.amount - a.amount): stable, descending
InsertDesc(sorted, e) ==
    LET smaller == {i \in 1..Len(sorted) : sorted[i].amount < e.amount}
        k == IF smaller = {} THEN Len(sorted) + 1
             ELSE CHOOSE i \in smaller : \A j \in smaller : i <= j
    IN  SubSeq(sorted, 1, k - 1) \o <<e>> \o SubSeq(sorted, k, Len(sorted))

SortDesc(s) == FoldLeft(InsertDesc, <<>>, s)

\* lines 1921-1935
CreditorsOf(bs) ==
    SortDesc(FlatMap(LAMBDA b : IF b.amount > Cent THEN <<b>> ELSE <<>>, bs))

\* lines 1922-1936
DebtorsOf(bs) ==
    SortDesc(FlatMap(LAMBDA b : IF b.amount < -Cent THEN <<Party(b.id, -b.amount)>>
                                ELSE <<>>, bs))

\* the head reduced and never dropped
AfterMatchKeepsHead(list, amount) == [list EXCEPT ![1].amount = @ - amount]

\* lines 1952-1953 and 1962-1963: the head is dropped when settled, else reduced
AfterMatch(list, amount) ==
    IF Abs(list[1].amount - amount) < Cent THEN Tail(list)
    ELSE [list EXCEPT ![1].amount = @ - amount]

Settlement(f, t, a, c, o, r) ==
    [from |-> f, to |-> t, amount |-> a, currency |-> c, optimized |-> o, replaced |-> r]

----------------------------------------------------------------------------
(* Step 5 and the return value, lines 1979-2052 *)

\* lines 2015-2023: the net debts an optimized settlement replaces
ReplacedBy(nds, s) ==
    FlatMap(LAMBDA o :
              IF \/ (o.from_user_id = s.from /\ o.to_user_id # s.to)
                 \/ (o.to_user_id = s.to /\ o.from_user_id # s.from)
              THEN <<o>> ELSE <<>>,
            nds)

\* lines 2004-2010
OriginalSettlements(nds) ==
    [i \in 1..Len(nds) |->
        Settlement(nds[i].from_user_id, nds[i].to_user_id, nds[i].amount,
                   nds[i].currency, FALSE, <<>>)]

\* lines 2013-2033
MappedOptimizedSettlements(nds, opt) ==
    [i \in 1..Len(opt) |-> [opt[i] EXCEPT !.replaced = ReplacedBy(nds, opt[i])]]

\* HasOptimization with the comparison turned around
HasOptimizationReversed(nOptimized, nNet) == nOptimized > nNet

\* HasOptimization with <= for <
HasOptimizationOrEqual(nOptimized, nNet) == nOptimized <= nNet

\* line 2036
HasOptimization(nOptimized, nNet) == nOptimized < nNet

\* lines 2045-2046: Math.round((1 - optimized / original) * 100)
ReductionPercent(nOptimized, nNet) ==
    IF nNet > 0 THEN (200 * (nNet - nOptimized) + nNet) \div (2 * nNet) ELSE 0

NoStats == [originalCount |-> 0, optimizedCount |-> 0, reductionPercent |-> 0]

\* lines 1810-1812 and 1986-1989: a query sent and how it came back
Query(name, failed) == [query |-> name, error |-> failed]

\* no value returned yet
NoResult ==
    [keys |-> {}, success |-> FALSE, settlements |-> <<>>, optimized |-> FALSE,
     stats |-> NoStats]

\* the empty case reported as a failure
EmptyResultFailed == [NoResult EXCEPT !.keys = {"success", "error"}]

\* line 1818: { success: true, settlements: [] }
EmptyResult == [NoResult EXCEPT !.keys = {"success", "settlements"}, !.success = TRUE]

\* the error returned together with a settlement list
ErrorResultWithSettlements ==
    [NoResult EXCEPT !.keys = {"success", "error", "settlements"}]

\* lines 2049-2052: { success: false, error: error.message }
ErrorResult == [NoResult EXCEPT !.keys = {"success", "error"}]

\* lines 2036-2048
FinalResult(nds, opt) ==
    [keys |-> {"success", "settlements", "optimized", "stats"},
     success |-> TRUE,
     settlements |-> IF HasOptimization(Len(opt), Len(nds))
                     THEN MappedOptimizedSettlements(nds, opt)
                     ELSE OriginalSettlements(nds),
     optimized |-> HasOptimization(Len(opt), Len(nds)),
     stats |-> [originalCount |-> Len(nds), optimizedCount |-> Len(opt),
                reductionPercent |-> ReductionPercent(Len(opt), Len(nds))]]

\* lines 1939-1976: the matching loop of one currency run to its end
RECURSIVE GreedyMatch(_, _, _)
GreedyMatch(cs, ds, c) ==
    IF Len(cs) = 0 \/ Len(ds) = 0 THEN <<>>
    ELSE LET creditor == cs[1]
             debtor == ds[1]
             amount == Min(creditor.amount, debtor.amount)
             roundedAmount == RoundCent(amount)
         IN  (IF roundedAmount < Cent THEN <<>>
              ELSE <<Settlement(debtor.id, creditor.id, roundedAmount, c, TRUE, <<>>)>>)
             \o GreedyMatch(AfterMatch(cs, amount), AfterMatch(ds, amount), c)

\* lines 1904-1977: the optimized settlements of all currencies
OptimizeCurrencies(nds, curs) ==
    FlatMap(LAMBDA c : GreedyMatch(CreditorsOf(ComputeBalances(nds, c)),
                                   DebtorsOf(ComputeBalances(nds, c)), c),
            curs)

\* lines 1816-2048: what getSimplifiedDebts returns for the debts ds when no
\* query fails
SimplifiedDebts(ds) ==
    IF Len(ds) = 0 THEN EmptyResult
    ELSE FinalResult(Netting(ds), OptimizeCurrencies(Netting(ds), CurrenciesOf(ds)))

----------------------------------------------------------------------------
(* Performance scoring.  The scores are computed in JavaScript numbers;   *)
(* the model computes them as exact fractions n/d with d > 0, kept in     *)
(* lowest terms, and rounds only where the code calls Math.round.         *)

RECURSIVE GCD(_, _)
GCD(a, b) == IF b = 0 THEN a ELSE GCD(b, a % b)

\* n / d for d > 0
Frac(n, d) == LET g == GCD(Abs(n), d) IN [n |-> n \div g, d |-> d \div g]

Num(k) == [n |-> k, d |-> 1]

RAdd(x, y) == Frac(x.n * y.d + y.n * x.d, x.d * y.d)

RSub(x, y) == Frac(x.n * y.d - y.n * x.d, x.d * y.d)

RMul(x, y) == Frac(x.n * y.n, x.d * y.d)

RLess(x, y) == x.n * y.d < y.n * x.d

RMax(x, y) == IF RLess(x, y) THEN y ELSE x

RMin(x, y) == IF RLess(y, x) THEN y ELSE x

\* Math.round: the nearest integer, halves upwards
MathRound(x) == (2 * x.n + x.d) \div (2 * x.d)

\* the empty case never taken
HasNoTasksNever(m) == FALSE

\* config.js line 547: !metrics.total
HasNoTasks(m) == m.total = 0

\* lines 584-591 with other weights
WeightedTaskScoreEven(completionScore, onTimeScore, helpfulnessScore, missPenalty, issuePenalty, swapPenalty) ==
    RSub(RSub(RSub(RAdd(RAdd(RMul(completionScore, Frac(30, 100)),
                             RMul(onTimeScore, Frac(30, 100))),
                        RMul(helpfulnessScore, Frac(20, 100))),
                   RMul(missPenalty, Frac(10, 100))),
              RMul(issuePenalty, Frac(10, 100))),
         RMul(swapPenalty, Frac(5, 100)))

\* config.js lines 584-591
WeightedTaskScore(completionScore, onTimeScore, helpfulnessScore, missPenalty, issuePenalty, swapPenalty) ==
    RSub(RSub(RSub(RAdd(RAdd(RMul(completionScore, Frac(40, 100)),
                             RMul(onTimeScore, Frac(25, 100))),
                        RMul(helpfulnessScore, Frac(15, 100))),
                   RMul(missPenalty, Frac(10, 100))),
              RMul(issuePenalty, Frac(10, 100))),
         RMul(swapPenalty, Frac(5, 100)))

\* the rounded score handed back as it is
ClampRoundedOff(rounded) == rounded

\* config.js line 594: Math.max(0, Math.min(100, rounded))
ClampRounded(rounded) == Max(0, Min(100, rounded))

\* config.js lines 545-595
calculatePerformanceScore(m) ==
    IF HasNoTasks(m) THEN 50
    ELSE
      LET completionRatio ==
              IF m.total > 0 THEN Frac(Max(0, m.completed - m.issues), m.total)
              ELSE Num(0)
          completionScore == RMul(completionRatio, Num(100))
          onTimeScore == Num(m.onTimePercentage)
          helpfulnessScore == m.helpfulness
          missRatio == IF m.total > 0 THEN Frac(m.missed, m.total) ELSE Num(0)
          missPenalty == RMul(missRatio, Num(100))
          issueRatio ==
              IF m.completed > 0 THEN Frac(m.issues, m.completed) ELSE Num(0)
          issuePenalty == RMul(issueRatio, Num(100))
          excessiveSwapRatio ==
              IF m.total > 0
              THEN RMax(Num(0), RSub(Frac(m.swapped, m.total), Frac(2, 10)))
              ELSE Num(0)
          swapPenalty == RMul(excessiveSwapRatio, Num(50))
      IN  ClampRounded(MathRound(
              WeightedTaskScore(completionScore, onTimeScore, helpfulnessScore,
                                missPenalty, issuePenalty, swapPenalty)))

\* part_006 line 2197
IsEmptyCase(m) == m.totalShares = 0 /\ m.contributedExpenses = 0

\* lines 2226-2228 with the weights of the first two parts exchanged
WeightedExpenseScoreSwapped(paymentResponsibilityScore, contributionScore, settlementScore) ==
    RAdd(RAdd(RMul(paymentResponsibilityScore, Frac(3, 10)),
              RMul(contributionScore, Frac(5, 10))),
         RMul(settlementScore, Frac(2, 10)))

\* part_006 lines 2226-2228
WeightedExpenseScore(paymentResponsibilityScore, contributionScore, settlementScore) ==
    RAdd(RAdd(RMul(paymentResponsibilityScore, Frac(5, 10)),
              RMul(contributionScore, Frac(3, 10))),
         RMul(settlementScore, Frac(2, 10)))

\* part_006 lines 2209-2215
ContributionScore(contributedExpenses) ==
    IF contributedExpenses > 0 THEN Min(100, 50 + contributedExpenses * 10) ELSE 50

\* part_006 lines 2219-2223
SettlementScore(initiatedSettlements) ==
    IF initiatedSettlements > 0 THEN Min(100, 70 + initiatedSettlements * 5) ELSE 50

\* part_006 line 2231: Math.max(0, Math.min(100, finalScore))
ClampFinal(finalScore) == RMax(Num(0), RMin(Num(100), finalScore))

\* part_006 lines 2195-2232
calculateExpenseScore(m) ==
    IF IsEmptyCase(m) THEN 50
    ELSE
      LET paymentRateScore == RMin(Num(100), m.paymentRate)
          promptnessScore == RMin(Num(100), m.promptnessRate)
          paymentResponsibilityScore ==
              RAdd(RMul(paymentRateScore, Frac(7, 10)),
                   RMul(promptnessScore, Frac(3, 10)))
          contributionScore == Num(ContributionScore(m.contributedExpenses))
          settlementScore == Num(SettlementScore(m.initiatedSettlements))
      IN  MathRound(ClampFinal(
              WeightedExpenseScore(paymentResponsibilityScore, contributionScore,
                                   settlementScore)))

\* no metrics handed in, no score returned
NoMetrics == [idle |-> TRUE]

NoScore == -1

ScoreIdle == metrics = NoMetrics /\ computedScore = NoScore

\* roommates.js lines 90-94: the locals of calculateRoommateScore
NoComponents ==
    [paymentScore |-> 0, responseScore |-> 0, taskScore |-> 0,
     outstandingAmount |-> 0, totalComponents |-> 0]

\* one of the last ten expense_shares rows of the roommate: paid in time, paid
\* late, or unpaid
ShareRows == [state : {"ontime", "late", "unpaid"}, amount : {3 * Cent}]

\* what the tables hold: the expense shares, the number of completed tasks,
\* and the count property of the rows of the count query (0: no such property)
Histories ==
    {h \in [payments : ListsOf(ShareRows, MaxCount), completedTasks : 0..MaxCount,
            allTasksCount : 0..(MaxCount + 1)] :
        h.allTasksCount = 0 \/ h.allTasksCount >= h.completedTasks}

NoHistory == [payments |-> <<>>, completedTasks |-> 0, allTasksCount |-> 0]

\* roommates.js line 106: p.paid && new Date(p.paid_at) <= new Date(p.due_date)
OnTimePayments(payments) == SelectSeq(payments, LAMBDA p : p.state = "ontime")

\* roommates.js lines 112-113
OutstandingAmount(payments) ==
    FoldLeft(LAMBDA sum, share : sum + share.amount, 0,
             SelectSeq(payments, LAMBDA p : p.state = "unpaid"))

\* roommates.js lines 104-117 for the rows the payments query returned; an
\* empty list stands for no rows, for null and for a query error alike
WithPayments(c, payments) ==
    IF Len(payments) > 0
    THEN [c EXCEPT !.paymentScore =
                       MathRound(Frac(100 * Len(OnTimePayments(payments)),
                                      Len(payments))),
                   !.totalComponents = @ + 1,
                   !.outstandingAmount = OutstandingAmount(payments)]
    ELSE [c EXCEPT !.paymentScore = 85]

\* roommates.js lines 129-140 for nTasks completed tasks; count is the count
\* property of the second query's data (0 when undefined or the query failed)
WithTasks(c, nTasks, count) ==
    IF nTasks > 0
    THEN LET totalTasks == IF count # 0 THEN count ELSE nTasks
         IN  [c EXCEPT !.taskScore = MathRound(Frac(100 * nTasks, totalTasks)),
                       !.totalComponents = @ + 1]
    ELSE c

\* roommates.js lines 148-149
WithResponse(c) == [c EXCEPT !.responseScore = 90, !.totalComponents = @ + 1]

\* roommates.js lines 152-154
RoommateFinalScore(c) ==
    IF c.totalComponents > 0
    THEN MathRound(Frac(c.paymentScore + c.taskScore + c.responseScore,
                        c.totalComponents))
    ELSE 85

\* nothing returned yet
NoRoommateScore ==
    [keys |-> {}, score |-> 0, outstandingAmount |-> 0, paymentScore |-> 0,
     taskScore |-> 0, responseScore |-> 0]

\* roommates.js lines 156-162
RoommateScoreOf(c) ==
    [keys |-> {"score", "outstandingAmount", "paymentScore", "taskScore",
               "responseScore"},
     score |-> RoommateFinalScore(c), outstandingAmount |-> c.outstandingAmount,
     paymentScore |-> c.paymentScore, taskScore |-> c.taskScore,
     responseScore |-> c.responseScore]

\* roommates.js line 165: { score: 85, outstandingAmount: 0 }
FallbackRoommateScore ==
    [NoRoommateScore EXCEPT !.keys = {"score", "outstandingAmount"}, !.score = 85]

RoommateIdle ==
    /\ history = NoHistory
    /\ roommatePc = "idle"
    /\ components = NoComponents
    /\ roommateScore = NoRoommateScore
    /\ failedQueries = {}

Members == 1..MaxMembers

\* no row of user_task_stats for the user
NoStatsRecord == [exists |-> FALSE, total_tasks |-> 0, completed_tasks |-> 0,
                  missed_tasks |-> 0, swapped_tasks |-> 0]

\* tasks.js lines 416-423 and config.js lines 483-488
StatsRecord(total, completed, missed, swapped) ==
    [exists |-> TRUE, total_tasks |-> total, completed_tasks |-> completed,
     missed_tasks |-> missed, swapped_tasks |-> swapped]

\* config.js lines 418-428: the tasks assigned to the user and their counts
TasksOf(ts, u) == SelectSeq(ts, LAMBDA t : t.assigned_to = u)

TotalTasks(ts, u) == Len(TasksOf(ts, u))

CompletedTasks(ts, u) ==
    Len(SelectSeq(TasksOf(ts, u), LAMBDA t : t.status = "completed"))

MissedTasks(ts, u) ==
    Len(SelectSeq(TasksOf(ts, u), LAMBDA t : t.status = "missed"))

\* config.js lines 469-472
OnTimePercentage(onTimeCompletions, totalCompletions) ==
    IF totalCompletions > 0
    THEN MathRound(Frac(100 * onTimeCompletions, totalCompletions))
    ELSE 100

\* config.js lines 503-504: receivedAccepted / Math.max(1, totalTasks / 4) * 100
Helpfulness(receivedAccepted, totalTasks) ==
    IF totalTasks > 0
    THEN IF totalTasks > 4 THEN Frac(400 * receivedAccepted, totalTasks)
         ELSE Num(100 * receivedAccepted)
    ELSE Num(50)

\* config.js lines 483-488: the stats record when the lookup found one
StatsOrCalculated(statsRecord, ts, u, initiatedAccepted) ==
    IF statsRecord.exists THEN statsRecord
    ELSE StatsRecord(TotalTasks(ts, u), CompletedTasks(ts, u), MissedTasks(ts, u),
                     initiatedAccepted)

\* config.js lines 491-505: the fields calculatePerformanceScore reads
TaskMetrics(stats, issuesCount, onTimePercentage, helpfulness) ==
    [total |-> stats.total_tasks, completed |-> stats.completed_tasks,
     missed |-> stats.missed_tasks, swapped |-> stats.swapped_tasks,
     issues |-> issuesCount, onTimePercentage |-> onTimePercentage,
     helpfulness |-> helpfulness]

\* config.js lines 417-519: the entry of one member; statsRecord is what the
\* user_task_stats lookup gave
TaskEntry(u, ts, completions, side, statsRecord) ==
    LET onTimePercentage == OnTimePercentage(completions.onTime, completions.total)
        stats == StatsOrCalculated(statsRecord, ts, u, side.initiatedAccepted)
        m == TaskMetrics(stats, side.issues, onTimePercentage,
                         Helpfulness(side.receivedAccepted, TotalTasks(ts, u)))
    IN  [userId |-> u, stats |-> stats, issues |-> side.issues,
         onTimePercentage |-> onTimePercentage, metrics |-> m,
         score |-> calculatePerformanceScore(m)]

\* Array.prototype.sort((a, b) => b.score - a.score): stable, descending
InsertByScore(sorted, e) ==
    LET smaller == {i \in 1..Len(sorted) : sorted[i].score < e.score}
        k == IF smaller = {} THEN Len(sorted) + 1
             ELSE CHOOSE i \in smaller : \A j \in smaller : i <= j
    IN  SubSeq(sorted, 1, k - 1) \o <<e>> \o SubSeq(sorted, k, Len(sorted))

\* the list left as it is
SortByScoreOff(s) == s

\* config.js line 524 and part_006 line 2181
SortByScore(s) == FoldLeft(InsertByScore, <<>>, s)

\* nothing returned
NoPerformance == [keys |-> {}, success |-> FALSE, performance |-> <<>>]

\* config.js line 526: { success: true, performance }
PerformanceResult(list) ==
    [keys |-> {"success", "performance"}, success |-> TRUE, performance |-> list]

\* config.js lines 527-530: { success: false, error, performance: [] }
FailedPerformance ==
    [keys |-> {"success", "error", "performance"}, success |-> FALSE,
     performance |-> <<>>]

\* config.js lines 415-526: the sorted entries of all members; lost holds the
\* members whose user_task_stats lookup failed (data is null)
TaskPerformanceList(ts, completions, side, records, lost) ==
    SortByScore([u \in Members |->
        TaskEntry(u, ts, completions[u], side[u],
                  IF u \in lost THEN NoStatsRecord ELSE records[u])])

NoCompletions == [total |-> 0, onTime |-> 0]

NoSide == [issues |-> 0, initiatedAccepted |-> 0, receivedAccepted |-> 0]

\* verified issues and accepted swaps of one member
SideCounts == {NoSide, [issues |-> 1, initiatedAccepted |-> 1, receivedAccepted |-> 1]}

\* the task tables empty and nothing returned
TaskTablesEmpty ==
    /\ tasks = <<>>
    /\ taskCompletions = [u \in Members |-> NoCompletions]
    /\ userTaskStats = [u \in Members |-> NoStatsRecord]
    /\ taskPerformance = NoPerformance

TaskIdle ==
    /\ taskPc = "idle"
    /\ taskSide = [u \in Members |-> NoSide]
    /\ TaskTablesEmpty

\* an expense share of a member: unpaid, or paid daysToPay days after the
\* expense was created, within the last 30 days (recent) or earlier
ExpenseShareRows ==
    {[paid |-> FALSE, daysToPay |-> 0, recent |-> FALSE],
     [paid |-> TRUE, daysToPay |-> 1, recent |-> TRUE],
     [paid |-> TRUE, daysToPay |-> 5, recent |-> TRUE],
     [paid |-> TRUE, daysToPay |-> 1, recent |-> FALSE]}

\* part_006 line 2103
PaidShares(shares) == Len(SelectSeq(shares, LAMBDA x : x.paid))

\* part_006 lines 2108-2123: the payments made within 3 days
PromptPayments(shares) ==
    Len(SelectSeq(shares, LAMBDA x : x.paid /\ x.daysToPay <= 3))

\* part_006 lines 2146-2148: the payments of the last 30 days
RecentPayments(shares) == Len(SelectSeq(shares, LAMBDA x : x.paid /\ x.recent))

\* part_006 line 2126
PromptnessRate(promptPayments, paidShares) ==
    IF paidShares > 0 THEN Frac(100 * promptPayments, paidShares) ELSE Num(0)

\* part_006 line 2155
PaymentRate(paidShares, totalShares) ==
    IF totalShares > 0 THEN Frac(100 * paidShares, totalShares) ELSE Num(100)

\* part_006 lines 2151-2165: the fields of the metrics object that are counts
\* or rates
ExpenseMetrics(shares, created) ==
    [totalShares |-> Len(shares),
     paidShares |-> PaidShares(shares),
     unpaidShares |-> Len(shares) - PaidShares(shares),
     paymentRate |-> PaymentRate(PaidShares(shares), Len(shares)),
     promptnessRate |-> PromptnessRate(PromptPayments(shares), PaidShares(shares)),
     contributedExpenses |-> created,
     initiatedSettlements |-> RecentPayments(shares)]

\* part_006 lines 2079-2176: the entry of one member
ExpenseEntry(u, shares, created) ==
    [userId |-> u, metrics |-> ExpenseMetrics(shares, created),
     score |-> calculateExpenseScore(ExpenseMetrics(shares, created))]

\* part_006 lines 2078-2181: the sorted entries of all members
ExpensePerformanceList(shares, created) ==
    SortByScore([u \in Members |-> ExpenseEntry(u, shares[u], created[u])])

ExpenseIdle ==
    /\ expensePc = "idle"
    /\ expenseShares = [u \in Members |-> <<>>]
    /\ createdExpenses = [u \in Members |-> 0]
    /\ expensePerformance = NoPerformance

\* a row of expense_shares: the user who owes it, the creator of the
\* expense, whom it is owed to, the amount and the paid flag
Share(id, user, creator, amount, paid) ==
    [id |-> id, user_id |-> user, created_by |-> creator, amount |-> amount,
     paid |-> paid]

\* part_006 lines 1695-1706: the unpaid shares of the payer, oldest first
UnpaidSharesOf(table, user) ==
    SelectSeq(table, LAMBDA x : x.user_id = user /\ ~x.paid)

\* the loop of lines 1714-1739 without its break: it goes on after the
\* share that is partly paid
RECURSIVE PayLoopNoBreak(_, _, _)
PayLoopNoBreak(list, remainingAmount, ids) ==
    IF list = <<>>
    THEN [paidShareIds |-> ids, partialId |-> 0, partialPaid |-> 0]
    ELSE IF Head(list).amount <= remainingAmount
         THEN PayLoopNoBreak(Tail(list), remainingAmount - Head(list).amount,
                             Append(ids, Head(list).id))
         ELSE PayLoopNoBreak(Tail(list), remainingAmount, ids)

\* part_006 lines 1711-1739: the ids of the shares that are fully covered,
\* and the share that is partly covered with the amount left on it
\* (partialId 0: no such share)
RECURSIVE PayLoop(_, _, _)
PayLoop(list, remainingAmount, ids) ==
    IF list = <<>> \/ remainingAmount <= 0
    THEN [paidShareIds |-> ids, partialId |-> 0, partialPaid |-> 0]
    ELSE IF Head(list).amount <= remainingAmount
         THEN PayLoop(Tail(list), remainingAmount - Head(list).amount,
                      Append(ids, Head(list).id))
         ELSE [paidShareIds |-> ids, partialId |-> Head(list).id,
               partialPaid |-> Head(list).amount - remainingAmount]

\* part_006 lines 1726-1733: update({ amount: partialPaid }).eq('id', id)
UpdateAmount(table, id, amount) ==
    [i \in 1..Len(table) |->
        IF table[i].id = id THEN [table[i] EXCEPT !.amount = amount] ELSE table[i]]

\* part_006 lines 1743-1751: update({ paid: true }).in('id', paidShareIds)
UpdatePaid(table, ids) ==
    [i \in 1..Len(table) |->
        IF \E k \in 1..Len(ids) : ids[k] = table[i].id
        THEN [table[i] EXCEPT !.paid = TRUE] ELSE table[i]]

NoSettlementData == [from_user_id |-> 0, to_user_id |-> 0, amount |-> 0]

NoSettleResult == [keys |-> {}, success |-> FALSE, paidShares |-> 0]

\* part_006 line 1794: { success: true, paidShares: paidShareIds.length }
SettleSuccess(n) ==
    [keys |-> {"success", "paidShares"}, success |-> TRUE, paidShares |-> n]

\* part_006 lines 1795-1798: { success: false, error: error.message }
SettleError == [keys |-> {"success", "error"}, success |-> FALSE, paidShares |-> 0]

SettleRest ==
    /\ fromUserShares = <<>>
    /\ paidShareIds = <<>>
    /\ expenseSettlements = <<>>
    /\ settleResult = NoSettleResult
    /\ failedStep = "none"

SettleIdle ==
    /\ settlePc = "idle"
    /\ settlementData = NoSettlementData
    /\ expense_shares = <<>>
    /\ sharesBefore = <<>>
    /\ SettleRest

\* the calls made at once
Calls == 1..MaxCalls

NoCallResult == [keys |-> {}, success |-> FALSE, error |-> ""]

\* tasks.js line 155: { success: true, alreadyCompleted: true }
AlreadyCompleted ==
    [keys |-> {"success", "alreadyCompleted"}, success |-> TRUE, error |-> ""]

\* tasks.js line 206: { success: true, completedOnTime }
CompletedResult ==
    [keys |-> {"success", "completedOnTime"}, success |-> TRUE, error |-> ""]

\* tasks.js lines 160-163, 207-210, 251, 257 and 288-291:
\* { success: false, error }, the error a message or the error of a query
CallError(message) ==
    [keys |-> {"success", "error"}, success |-> FALSE, error |-> message]

\* tasks.js lines 284-287: { success: true, nextAssignee }
RotatedResult ==
    [keys |-> {"success", "nextAssignee"}, success |-> TRUE, error |-> ""]

CompleteIdle ==
    /\ taskStatus = "pending"
    /\ completionRows = 0
    /\ callByAssignee = [c \in Calls |-> FALSE]
    /\ completePc = [c \in Calls |-> "idle"]
    /\ completeResult = [c \in Calls |-> NoCallResult]

\* tasks.js line 255: assignments.findIndex(a => a.is_current), 0 for -1
FindCurrent(rows) ==
    IF \E i \in 1..Len(rows) : rows[i]
    THEN CHOOSE i \in 1..Len(rows) : rows[i] /\ \A j \in 1..(i - 1) : ~rows[j]
    ELSE 0

\* tasks.js line 261: (currentIndex + 1) % assignments.length, counted from 1
NextIndex(index, n) == (index % n) + 1

RotateIdle ==
    /\ assignments = <<>>
    /\ wasCurrent = {}
    /\ rotatePc = [c \in Calls |-> "idle"]
    /\ currentIndex = [c \in Calls |-> 0]
    /\ rotateResult = [c \in Calls |-> NoCallResult]

WritersIdle == SettleIdle /\ CompleteIdle /\ RotateIdle

\* the variables of the other operations at rest
OtherIdle ==
    ScoreIdle /\ RoommateIdle /\ TaskIdle /\ ExpenseIdle /\ WritersIdle

----------------------------------------------------------------------------
(* The inputs: what get_all_group_debts returns *)

DebtRecords(users, curs, amts) ==
    {[from_user_id |-> f, to_user_id |-> t, amount |-> a, currency |-> c] :
        f \in users, t \in users, a \in amts, c \in curs} \ 
    {d \in [from_user_id : users, to_user_id : users, amount : amts, currency : curs] :
        d.from_user_id = d.to_user_id}

\* well-formed records: a currency and a positive amount
ValidDebtLists == ListsOf(DebtRecords(Users, Currencies, Amounts), MaxDebts)

\* nothing computed yet
RestInit ==
    /\ debtGraph = EmptyGraph
    /\ currencies = <<>>
    /\ netDebts = <<>>
    /\ todo = <<>>
    /\ balances = <<>>
    /\ creditors = <<>>
    /\ debtors = <<>>
    /\ optimizedSettlements = <<>>
    /\ result = NoResult
    /\ queries = <<>>

Init == debts \in ValidDebtLists /\ pc = "start" /\ RestInit /\ OtherIdle

\* larger groups, one currency
WideDebtRecords == DebtRecords(1..WideUsers, {"USD"}, WideAmounts)

\* the place of a row in a list of rows: by debtor, then creditor, then amount
RowRank(d) == (d.from_user_id * (WideUsers + 1) + d.to_user_id) * (4 * Cent) + d.amount

\* the rows of a larger group are put together one by one before the call
InitWide == debts = <<>> /\ pc = "rows" /\ RestInit /\ OtherIdle

\* two currencies side by side: rows whose debtor id sorts before the
\* creditor id, the pairs the netting keeps
TwoCurrencyRecords ==
    {d \in DebtRecords(Users, {"USD"}, {3 * Cent, 6 * Cent})
            \cup DebtRecords(Users, {"EUR"}, {3 * Cent}) :
        d.from_user_id < d.to_user_id}

\* the place of a row: USD before EUR, then debtor, creditor and amount
CurrencyRowRank(d) ==
    (IF d.currency = "EUR" THEN (NumUsers + 1) * (NumUsers + 1) ELSE 0) * (10 * Cent)
    + (d.from_user_id * (NumUsers + 1) + d.to_user_id) * (10 * Cent) + d.amount

\* records as they come when nothing validated them: the currency may be
\* missing and the amount negative
AnyDebtLists == ListsOf(DebtRecords(Users, {"USD", NoCurrency}, AnyAmounts), MaxDebts)

\* one currency, half a cent and three cents
RunningDebtLists == ListsOf(DebtRecords(Users, {"USD"}, {5, 3 * Cent}), MaxDebts)

InitRunning == debts \in RunningDebtLists /\ pc = "start" /\ RestInit /\ OtherIdle

InitAnyInput == debts \in AnyDebtLists /\ pc = "start" /\ RestInit /\ OtherIdle

----------------------------------------------------------------------------
(* getSimplifiedDebts, one action per step *)

\* lines 1810-1814: the rpc fails and the catch block returns the error
FetchDebtsFails ==
    /\ pc = "start"
    /\ pc' = "done"
    /\ result' = ErrorResult
    /\ UNCHANGED <<debts, debtGraph, currencies, netDebts, todo, balances,
                   creditors, debtors, optimizedSettlements>>
    /\ queries' = Append(queries, Query("get_all_group_debts", TRUE))
    /\ UNCHANGED otherVars

\* lines 1816-1819: no debts
FetchDebtsEmpty ==
    /\ pc = "start"
    /\ Len(debts) = 0
    /\ pc' = "done"
    /\ result' = EmptyResult
    /\ UNCHANGED <<debts, debtGraph, currencies, netDebts, todo, balances,
                   creditors, debtors, optimizedSettlements>>
    /\ queries' = Append(queries, Query("get_all_group_debts", FALSE))
    /\ UNCHANGED otherVars

\* lines 1810-1862: the debts arrive and the graph is built
BuildGraph ==
    /\ pc = "start"
    /\ Len(debts) > 0
    /\ debtGraph' = BuildDebtGraph(debts)
    /\ currencies' = CurrenciesOf(debts)
    /\ pc' = "net"
    /\ UNCHANGED <<debts, netDebts, todo, balances, creditors, debtors,
                   optimizedSettlements, result>>
    /\ queries' = Append(queries, Query("get_all_group_debts", FALSE))
    /\ UNCHANGED otherVars

\* lines 1864-1905
ResolveNet ==
    /\ pc = "net"
    /\ netDebts' = ResolveNetDebts(debtGraph, currencies)
    /\ todo' = currencies
    /\ pc' = "optimize"
    /\ UNCHANGED <<debts, debtGraph, currencies, balances, creditors, debtors,
                   optimizedSettlements, result>>
    /\ UNCHANGED queries
    /\ UNCHANGED otherVars

\* lines 1907-1936: the next currency's balances, creditors and debtors
StartCurrency ==
    /\ pc = "optimize"
    /\ todo # <<>>
    /\ balances' = ComputeBalances(netDebts, Head(todo))
    /\ creditors' = CreditorsOf(balances')
    /\ debtors' = DebtorsOf(balances')
    /\ pc' = "match"
    /\ UNCHANGED <<debts, debtGraph, currencies, netDebts, todo,
                   optimizedSettlements, result>>
    /\ UNCHANGED queries
    /\ UNCHANGED otherVars

\* lines 1939-1976: one iteration of the matching loop
GreedyStep ==
    /\ pc = "match"
    /\ Len(creditors) > 0 /\ Len(debtors) > 0
    /\ LET creditor == creditors[1]
           debtor == debtors[1]
           amount == Min(creditor.amount, debtor.amount)
           roundedAmount == RoundCent(amount)
       IN  /\ creditors' = AfterMatch(creditors, amount)
           /\ debtors' = AfterMatch(debtors, amount)
           /\ optimizedSettlements' =
                 IF roundedAmount < Cent THEN optimizedSettlements
                 ELSE Append(optimizedSettlements,
                             Settlement(debtor.id, creditor.id, roundedAmount,
                                        Head(todo), TRUE, <<>>))
    /\ UNCHANGED <<debts, pc, debtGraph, currencies, netDebts, todo, balances, result>>
    /\ UNCHANGED queries
    /\ UNCHANGED otherVars

\* line 1939: a list is empty, the loop of this currency ends
EndCurrency ==
    /\ pc = "match"
    /\ (Len(creditors) = 0 \/ Len(debtors) = 0)
    /\ todo' = Tail(todo)
    /\ pc' = "optimize"
    /\ UNCHANGED <<debts, debtGraph, currencies, netDebts, balances, creditors,
                   debtors, optimizedSettlements, result>>
    /\ UNCHANGED queries
    /\ UNCHANGED otherVars

\* lines 1986-1991 and 2049-2052: the profiles query fails
FetchProfilesFails ==
    /\ pc = "optimize"
    /\ todo = <<>>
    /\ pc' = "done"
    /\ result' = ErrorResult
    /\ UNCHANGED <<debts, debtGraph, currencies, netDebts, todo, balances,
                   creditors, debtors, optimizedSettlements>>
    /\ queries' = Append(queries, Query("profiles", TRUE))
    /\ UNCHANGED otherVars

\* lines 1979-2048: the profiles arrive and the result is returned
Return ==
    /\ pc = "optimize"
    /\ todo = <<>>
    /\ pc' = "done"
    /\ result' = FinalResult(netDebts, optimizedSettlements)
    /\ UNCHANGED <<debts, debtGraph, currencies, netDebts, todo, balances,
                   creditors, debtors, optimizedSettlements>>
    /\ queries' = Append(queries, Query("profiles", FALSE))
    /\ UNCHANGED otherVars

\* one more row of a larger group: every record at most once, in row order
\* (repeated records and the other orders are inputs of Spec)
AddRow ==
    /\ pc = "rows"
    /\ Len(debts) < WideDebts
    /\ \E d \in WideDebtRecords :
          /\ IF Len(debts) = 0 THEN TRUE
             ELSE RowRank(debts[Len(debts)]) < RowRank(d)
          /\ debts' = Append(debts, d)
    /\ UNCHANGED <<pc, debtGraph, currencies, netDebts, todo, balances, creditors,
                   debtors, optimizedSettlements, result>>
    /\ UNCHANGED queries
    /\ UNCHANGED otherVars

\* one more row of a group with two currencies: at most MaxDebts rows of a
\* currency, every record at most once, in row order
AddCurrencyRow ==
    /\ pc = "rows"
    /\ \E d \in TwoCurrencyRecords :
          /\ Len(SelectSeq(debts, LAMBDA x : x.currency = d.currency)) < MaxDebts
          /\ IF Len(debts) = 0 THEN TRUE
             ELSE CurrencyRowRank(debts[Len(debts)]) < CurrencyRowRank(d)
          /\ debts' = Append(debts, d)
    /\ UNCHANGED <<pc, debtGraph, currencies, netDebts, todo, balances, creditors,
                   debtors, optimizedSettlements, result>>
    /\ UNCHANGED queries
    /\ UNCHANGED otherVars

\* the rows are complete and getSimplifiedDebts is called
RowsDone ==
    /\ pc = "rows"
    /\ pc' = "start"
    /\ UNCHANGED <<debts, debtGraph, currencies, netDebts, todo, balances,
                   creditors, debtors, optimizedSettlements, result>>
    /\ UNCHANGED queries
    /\ UNCHANGED otherVars

Next ==
    \/ FetchDebtsFails
    \/ FetchDebtsEmpty
    \/ BuildGraph
    \/ ResolveNet
    \/ StartCurrency
    \/ GreedyStep
    \/ EndCurrency
    \/ FetchProfilesFails
    \/ Return

Spec == Init /\ [][Next]_vars

NextWide == AddRow \/ RowsDone \/ Next

SpecWide == InitWide /\ [][NextWide]_vars

SpecAnyInput == InitAnyInput /\ [][Next]_vars

NextTwoCurrencies == AddCurrencyRow \/ RowsDone \/ Next

SpecTwoCurrencies == InitWide /\ [][NextTwoCurrencies]_vars

\* the call runs on: the loop of lines 1939-1976 is sequential code, an
\* iteration that can be taken is taken
SpecRunning == InitRunning /\ [][Next]_vars /\ WF_vars(GreedyStep)

----------------------------------------------------------------------------
(* The two scorers called on metrics of any shape *)

\* getSimplifiedDebts is not running
DebtIdle == debts = <<>> /\ pc = "idle" /\ RestInit

\* on-time percentages and helpfulness values, the latter also above 100
OnTimePercentages == {0, 50, 100}

HelpfulnessValues == {Num(0), Num(50), Frac(200, 3), Num(400)}

\* the metrics object of config.js lines 491-505; completed may exceed total
TaskMetricsInputs ==
    [total : 0..MaxCount, completed : 0..(MaxCount + 1), missed : 0..MaxCount,
     swapped : 0..MaxCount, issues : 0..MaxCount,
     onTimePercentage : OnTimePercentages, helpfulness : HelpfulnessValues]

\* rates in percent, also above 100
RateValues == {Num(0), Frac(100, 3), Num(100), Num(150)}

\* the fields of the metrics object of part_006 lines 2151-2165 that
\* calculateExpenseScore reads
ExpenseMetricsInputs ==
    [totalShares : 0..MaxCount, paymentRate : RateValues,
     promptnessRate : RateValues, contributedExpenses : {0, 1, 5, 6},
     initiatedSettlements : {0, 1, 6, 7}]

InitScore ==
    /\ metrics \in TaskMetricsInputs \cup ExpenseMetricsInputs
    /\ computedScore = NoScore
    /\ DebtIdle
    /\ RoommateIdle
    /\ TaskIdle
    /\ ExpenseIdle
    /\ WritersIdle

\* config.js line 508: calculatePerformanceScore(metrics)
CallPerformanceScore ==
    /\ "total" \in DOMAIN metrics
    /\ computedScore = NoScore
    /\ computedScore' = calculatePerformanceScore(metrics)
    /\ UNCHANGED <<metrics, debtVars, roommateVars, taskVars, expenseVars,
                   writerVars>>

\* part_006 line 2168: calculateExpenseScore(metrics)
CallExpenseScore ==
    /\ "totalShares" \in DOMAIN metrics
    /\ computedScore = NoScore
    /\ computedScore' = calculateExpenseScore(metrics)
    /\ UNCHANGED <<metrics, debtVars, roommateVars, taskVars, expenseVars,
                   writerVars>>

NextScore == CallPerformanceScore \/ CallExpenseScore

SpecScore == InitScore /\ [][NextScore]_vars

----------------------------------------------------------------------------
(* calculateRoommateScore, one action per query *)

InitRoommate ==
    /\ history \in Histories
    /\ roommatePc = "payments"
    /\ components = NoComponents
    /\ roommateScore = NoRoommateScore
    /\ failedQueries = {}
    /\ DebtIdle
    /\ ScoreIdle
    /\ TaskIdle
    /\ ExpenseIdle
    /\ WritersIdle

\* lines 97-117: the expense_shares query answers
FetchPayments ==
    /\ roommatePc = "payments"
    /\ components' = WithPayments(components, history.payments)
    /\ roommatePc' = "tasks"
    /\ UNCHANGED <<history, roommateScore, failedQueries, debtVars, scoreVars, taskVars,
                   expenseVars, writerVars>>

\* lines 97-117: the expense_shares query answers with an error
FetchPaymentsError ==
    /\ roommatePc = "payments"
    /\ components' = WithPayments(components, <<>>)
    /\ failedQueries' = failedQueries \cup {"expense_shares"}
    /\ roommatePc' = "tasks"
    /\ UNCHANGED <<history, roommateScore, debtVars, scoreVars, taskVars,
                   expenseVars, writerVars>>

\* lines 97-102 and 163-166: the expense_shares query throws
FetchPaymentsThrows ==
    /\ roommatePc = "payments"
    /\ failedQueries' = failedQueries \cup {"expense_shares"}
    /\ roommateScore' = FallbackRoommateScore
    /\ roommatePc' = "done"
    /\ UNCHANGED <<history, components, debtVars, scoreVars, taskVars,
                   expenseVars, writerVars>>

\* lines 121-140: the tasks query answers; the count query answers or fails
FetchTasks ==
    /\ roommatePc = "tasks"
    /\ \E countFails \in BOOLEAN :
          /\ countFails => history.completedTasks > 0
          /\ components' =
                WithTasks(components, history.completedTasks,
                          IF countFails THEN 0 ELSE history.allTasksCount)
          /\ failedQueries' =
                IF countFails THEN failedQueries \cup {"tasks count"}
                ELSE failedQueries
    /\ roommatePc' = "score"
    /\ UNCHANGED <<history, roommateScore, debtVars, scoreVars, taskVars,
                   expenseVars, writerVars>>

\* lines 121-144: the tasks query answers with an error, or throws and the
\* inner catch ignores it
FetchTasksFails ==
    /\ roommatePc = "tasks"
    /\ failedQueries' = failedQueries \cup {"tasks"}
    /\ roommatePc' = "score"
    /\ UNCHANGED <<history, components, roommateScore, debtVars, scoreVars, taskVars,
                   expenseVars, writerVars>>

\* lines 146-162
ReturnRoommateScore ==
    /\ roommatePc = "score"
    /\ components' = WithResponse(components)
    /\ roommateScore' = RoommateScoreOf(components')
    /\ roommatePc' = "done"
    /\ UNCHANGED <<history, failedQueries, debtVars, scoreVars, taskVars,
                   expenseVars, writerVars>>

NextRoommate ==
    \/ FetchPayments
    \/ FetchPaymentsError
    \/ FetchPaymentsThrows
    \/ FetchTasks
    \/ FetchTasksFails
    \/ ReturnRoommateScore

SpecRoommate == InitRoommate /\ [][NextRoommate]_vars

----------------------------------------------------------------------------
(* The task operations of one group and getRoommateTaskPerformance *)

InitTaskPerformance ==
    /\ taskPc = "ready"
    /\ taskSide \in [Members -> SideCounts]
    /\ TaskTablesEmpty
    /\ DebtIdle
    /\ ScoreIdle
    /\ RoommateIdle
    /\ ExpenseIdle
    /\ WritersIdle

\* tasks.js lines 76-106: createTask inserts a task for a member
CreateTask ==
    /\ taskPc = "ready"
    /\ Len(tasks) < MaxTasks
    /\ \E u \in Members :
          tasks' = Append(tasks, [assigned_to |-> u, status |-> "pending"])
    /\ taskPerformance' = NoPerformance
    /\ UNCHANGED <<taskPc, taskCompletions, taskSide, userTaskStats>>
    /\ UNCHANGED <<debtVars, scoreVars, roommateVars, expenseVars, writerVars>>

\* tasks.js lines 142-211: markTaskComplete by the assigned user; the
\* completion is in time or late; the rpc increment_user_stats, whose body is
\* not part of the repository, raises completed_tasks of an existing stats
\* record or changes nothing (its failure is ignored, lines 195-204)
MarkTaskComplete ==
    /\ taskPc = "ready"
    /\ \E i \in 1..Len(tasks), completedOnTime \in BOOLEAN, counted \in BOOLEAN :
          LET u == tasks[i].assigned_to IN
          /\ tasks[i].status # "completed"
          /\ tasks' = [tasks EXCEPT ![i].status = "completed"]
          /\ taskCompletions' =
                [taskCompletions EXCEPT
                    ![u].total = @ + 1,
                    ![u].onTime = IF completedOnTime THEN @ + 1 ELSE @]
          /\ userTaskStats' =
                IF counted /\ userTaskStats[u].exists
                THEN [userTaskStats EXCEPT ![u].completed_tasks = @ + 1]
                ELSE userTaskStats
    /\ taskPerformance' = NoPerformance
    /\ UNCHANGED <<taskPc, taskSide>>
    /\ UNCHANGED <<debtVars, scoreVars, roommateVars, expenseVars, writerVars>>

\* tasks.js lines 114-135: updateTask sets the status of a task that is not
\* completed to missed or back to pending
UpdateTaskStatus ==
    /\ taskPc = "ready"
    /\ \E i \in 1..Len(tasks), status \in {"pending", "missed"} :
          /\ tasks[i].status \notin {"completed", status}
          /\ tasks' = [tasks EXCEPT ![i].status = status]
    /\ taskPerformance' = NoPerformance
    /\ UNCHANGED <<taskPc, taskCompletions, taskSide, userTaskStats>>
    /\ UNCHANGED <<debtVars, scoreVars, roommateVars, expenseVars, writerVars>>

\* tasks.js lines 367-435: getUserTaskStats returns the stored record, or
\* counts the tasks, stores the counts and returns them (a call whose query
\* fails changes no table, lines 436-443)
GetUserTaskStats ==
    /\ taskPc = "ready"
    /\ \E u \in Members :
          LET r == IF userTaskStats[u].exists THEN userTaskStats[u]
                   ELSE StatsRecord(TotalTasks(tasks, u), CompletedTasks(tasks, u),
                                    MissedTasks(tasks, u),
                                    taskSide[u].initiatedAccepted)
          IN  userTaskStats' = [userTaskStats EXCEPT ![u] = r]
    /\ taskPerformance' = NoPerformance
    /\ UNCHANGED <<taskPc, tasks, taskCompletions, taskSide>>
    /\ UNCHANGED <<debtVars, scoreVars, roommateVars, expenseVars, writerVars>>

\* config.js lines 397-526: getRoommateTaskPerformance; the user_task_stats
\* lookups of the members in lost fail, which line 483 does not notice
GetRoommateTaskPerformance ==
    /\ taskPc = "ready"
    /\ \E lost \in SUBSET Members :
          taskPerformance' =
              PerformanceResult(TaskPerformanceList(tasks, taskCompletions, taskSide,
                                                    userTaskStats, lost))
    /\ UNCHANGED <<taskPc, tasks, taskCompletions, taskSide, userTaskStats>>
    /\ UNCHANGED <<debtVars, scoreVars, roommateVars, expenseVars, writerVars>>

\* config.js lines 408, 424, 437, 445, 453, 467 and 527-530: a query that is
\* tested fails
GetRoommateTaskPerformanceFails ==
    /\ taskPc = "ready"
    /\ taskPerformance' = FailedPerformance
    /\ UNCHANGED <<taskPc, tasks, taskCompletions, taskSide, userTaskStats>>
    /\ UNCHANGED <<debtVars, scoreVars, roommateVars, expenseVars, writerVars>>

NextTaskPerformance ==
    \/ CreateTask
    \/ MarkTaskComplete
    \/ UpdateTaskStatus
    \/ GetUserTaskStats
    \/ GetRoommateTaskPerformance
    \/ GetRoommateTaskPerformanceFails

SpecTaskPerformance == InitTaskPerformance /\ [][NextTaskPerformance]_vars

----------------------------------------------------------------------------
(* getExpensePerformance, and the two performance lists side by side *)

InitExpensePerformance ==
    /\ expensePc = "start"
    /\ expenseShares \in [Members -> ListsOf(ExpenseShareRows, MaxShares)]
    /\ createdExpenses \in [Members -> {0, 1}]
    /\ expensePerformance = NoPerformance
    /\ DebtIdle
    /\ ScoreIdle
    /\ RoommateIdle
    /\ TaskIdle
    /\ WritersIdle

\* part_006 lines 2060-2183
GetExpensePerformance ==
    /\ expensePc = "start"
    /\ expensePerformance' =
          PerformanceResult(ExpensePerformanceList(expenseShares, createdExpenses))
    /\ expensePc' = "done"
    /\ UNCHANGED <<expenseShares, createdExpenses>>
    /\ UNCHANGED <<debtVars, scoreVars, roommateVars, taskVars, writerVars>>

\* part_006 lines 2071, 2087, 2099, 2141 and 2184-2187: a query fails
GetExpensePerformanceFails ==
    /\ expensePc = "start"
    /\ expensePerformance' = FailedPerformance
    /\ expensePc' = "done"
    /\ UNCHANGED <<expenseShares, createdExpenses>>
    /\ UNCHANGED <<debtVars, scoreVars, roommateVars, taskVars, writerVars>>

\* a group whose task operations are called, or a call of
\* getExpensePerformance
InitPerformance == InitTaskPerformance \/ InitExpensePerformance

NextPerformance ==
    \/ CreateTask
    \/ MarkTaskComplete
    \/ UpdateTaskStatus
    \/ GetRoommateTaskPerformance
    \/ GetRoommateTaskPerformanceFails
    \/ GetExpensePerformance
    \/ GetExpensePerformanceFails

SpecPerformance == InitPerformance /\ [][NextPerformance]_vars

----------------------------------------------------------------------------
(* recordSettlement, one action per storage call *)

\* the rows a table is made of: unpaid shares of user 1 owed to user 2 or
\* user 3, a paid share of user 1, and an unpaid share of user 3
SettleShareRows ==
    {Share(0, 1, c, a, FALSE) : c \in {2, 3}, a \in {2 * Cent, 3 * Cent}}
    \cup {Share(0, 1, 2, 3 * Cent, TRUE), Share(0, 3, 2, 2 * Cent, FALSE)}

\* the id of a row is its place in the table, which is in created_at order
WithIds(rows) == [i \in 1..Len(rows) |-> [rows[i] EXCEPT !.id = i]]

\* user 1 settles two or five cents with user 2
SettlementInputs ==
    {[from_user_id |-> 1, to_user_id |-> 2, amount |-> a] : a \in {2 * Cent, 5 * Cent}}

InitSettle ==
    /\ settlePc = "start"
    /\ settlementData \in SettlementInputs
    /\ \E rows \in ListsOf(SettleShareRows, MaxSettleShares) :
          expense_shares = WithIds(rows) /\ sharesBefore = WithIds(rows)
    /\ SettleRest
    /\ DebtIdle
    /\ ScoreIdle
    /\ RoommateIdle
    /\ TaskIdle
    /\ ExpenseIdle
    /\ CompleteIdle
    /\ RotateIdle

SettleFrame ==
    UNCHANGED <<debtVars, scoreVars, roommateVars, taskVars, expenseVars,
                completeVars, rotateVars>>

\* part_006 lines 1695-1712: the query of the payer's unpaid shares
FetchFromUserShares ==
    /\ settlePc = "start"
    /\ fromUserShares' = UnpaidSharesOf(expense_shares, settlementData.from_user_id)
    /\ settlePc' = "pay"
    /\ UNCHANGED <<settlementData, expense_shares, sharesBefore, paidShareIds,
                   expenseSettlements, settleResult, failedStep>>
    /\ SettleFrame

\* part_006 lines 1708 and 1795-1798
FetchFromUserSharesFails ==
    /\ settlePc = "start"
    /\ settlePc' = "done"
    /\ settleResult' = SettleError
    /\ failedStep' = "shares"
    /\ UNCHANGED <<settlementData, expense_shares, sharesBefore, fromUserShares,
                   paidShareIds, expenseSettlements>>
    /\ SettleFrame

\* part_006 lines 1711-1739: the loop, with the update of the share that is
\* partly covered
PayShares ==
    /\ settlePc = "pay"
    /\ LET r == PayLoop(fromUserShares, settlementData.amount, <<>>)
       IN  /\ paidShareIds' = r.paidShareIds
           /\ expense_shares' = IF r.partialId # 0
                        THEN UpdateAmount(expense_shares, r.partialId, r.partialPaid)
                        ELSE expense_shares
    /\ settlePc' = "mark"
    /\ UNCHANGED <<settlementData, sharesBefore, fromUserShares,
                   expenseSettlements, settleResult, failedStep>>
    /\ SettleFrame

\* part_006 lines 1735 and 1795-1798: the update of the partly covered share
\* fails
PartialUpdateFails ==
    /\ settlePc = "pay"
    /\ LET r == PayLoop(fromUserShares, settlementData.amount, <<>>)
       IN  /\ r.partialId # 0
           /\ paidShareIds' = r.paidShareIds
    /\ settlePc' = "done"
    /\ settleResult' = SettleError
    /\ failedStep' = "partial"
    /\ UNCHANGED <<settlementData, expense_shares, sharesBefore, fromUserShares,
                   expenseSettlements>>
    /\ SettleFrame

\* part_006 lines 1741-1754: the fully covered shares are marked paid
MarkSharesPaid ==
    /\ settlePc = "mark"
    /\ expense_shares' = IF Len(paidShareIds) > 0 THEN UpdatePaid(expense_shares, paidShareIds)
                 ELSE expense_shares
    /\ settlePc' = "record"
    /\ UNCHANGED <<settlementData, sharesBefore, fromUserShares, paidShareIds,
                   expenseSettlements, settleResult, failedStep>>
    /\ SettleFrame

\* part_006 lines 1753 and 1795-1798
MarkSharesPaidFails ==
    /\ settlePc = "mark"
    /\ Len(paidShareIds) > 0
    /\ settlePc' = "done"
    /\ settleResult' = SettleError
    /\ failedStep' = "update"
    /\ UNCHANGED <<settlementData, expense_shares, sharesBefore, fromUserShares,
                   paidShareIds, expenseSettlements>>
    /\ SettleFrame

\* part_006 lines 1756-1794: the notifications, whose error is bound and
\* never tested, then the row of expense_settlements
InsertSettlement ==
    /\ settlePc = "record"
    /\ expenseSettlements' = Append(expenseSettlements, settlementData)
    /\ settlePc' = "done"
    /\ settleResult' = SettleSuccess(Len(paidShareIds))
    /\ UNCHANGED <<settlementData, expense_shares, sharesBefore, fromUserShares,
                   paidShareIds, failedStep>>
    /\ SettleFrame

\* part_006 lines 1792 and 1795-1798
InsertSettlementFails ==
    /\ settlePc = "record"
    /\ settlePc' = "done"
    /\ settleResult' = SettleError
    /\ failedStep' = "settlement"
    /\ UNCHANGED <<settlementData, expense_shares, sharesBefore, fromUserShares,
                   paidShareIds, expenseSettlements>>
    /\ SettleFrame

NextSettle ==
    \/ FetchFromUserShares
    \/ FetchFromUserSharesFails
    \/ PayShares
    \/ PartialUpdateFails
    \/ MarkSharesPaid
    \/ MarkSharesPaidFails
    \/ InsertSettlement
    \/ InsertSettlementFails

SpecSettle == InitSettle /\ [][NextSettle]_vars

----------------------------------------------------------------------------
(* markTaskComplete called several times at once, one action per storage  *)
(* call of a call                                                          *)

\* a task that is pending, or completed with its one completion row
InitComplete ==
    /\ \/ taskStatus = "pending" /\ completionRows = 0
       \/ taskStatus = "completed" /\ completionRows = 1
    /\ callByAssignee \in [Calls -> BOOLEAN]
    /\ completePc = [c \in Calls |-> "read"]
    /\ completeResult = [c \in Calls |-> NoCallResult]
    /\ DebtIdle
    /\ ScoreIdle
    /\ RoommateIdle
    /\ TaskIdle
    /\ ExpenseIdle
    /\ SettleIdle
    /\ RotateIdle

CompleteFrame ==
    UNCHANGED <<debtVars, scoreVars, roommateVars, taskVars, expenseVars,
                settleVars, rotateVars>>

\* a call ends with a result
Finish(c, r) ==
    /\ completePc' = [completePc EXCEPT ![c] = "done"]
    /\ completeResult' = [completeResult EXCEPT ![c] = r]

\* tasks.js lines 145-164: the task is read and the two tests are made
ReadTask(c) ==
    /\ completePc[c] = "read"
    /\ IF taskStatus = "completed" THEN Finish(c, AlreadyCompleted)
       ELSE IF ~callByAssignee[c]
            THEN Finish(c, CallError("Only the assigned user can mark this "
                                     \o "task as complete"))
       ELSE /\ completePc' = [completePc EXCEPT ![c] = "update"]
            /\ UNCHANGED completeResult
    /\ UNCHANGED <<taskStatus, completionRows, callByAssignee>>
    /\ CompleteFrame

\* tasks.js lines 151 and 207-210
ReadTaskFails(c) ==
    /\ completePc[c] = "read"
    /\ Finish(c, CallError("taskError"))
    /\ UNCHANGED <<taskStatus, completionRows, callByAssignee>>
    /\ CompleteFrame

\* tasks.js lines 171-177: status: 'completed'
UpdateStatus(c) ==
    /\ completePc[c] = "update"
    /\ taskStatus' = "completed"
    /\ completePc' = [completePc EXCEPT ![c] = "insert"]
    /\ UNCHANGED <<completionRows, callByAssignee, completeResult>>
    /\ CompleteFrame

\* tasks.js lines 179 and 207-210
UpdateStatusFails(c) ==
    /\ completePc[c] = "update"
    /\ Finish(c, CallError("updateError"))
    /\ UNCHANGED <<taskStatus, completionRows, callByAssignee>>
    /\ CompleteFrame

\* tasks.js lines 182-190: the row of task_completions
InsertCompletion(c) ==
    /\ completePc[c] = "insert"
    /\ completionRows' = completionRows + 1
    /\ completePc' = [completePc EXCEPT ![c] = "stats"]
    /\ UNCHANGED <<taskStatus, callByAssignee, completeResult>>
    /\ CompleteFrame

\* tasks.js lines 192 and 207-210
InsertCompletionFails(c) ==
    /\ completePc[c] = "insert"
    /\ Finish(c, CallError("completionError"))
    /\ UNCHANGED <<taskStatus, completionRows, callByAssignee>>
    /\ CompleteFrame

\* tasks.js lines 195-206: the rpc increment_user_stats, which writes to
\* neither tasks nor task_completions and whose failure is ignored, and the
\* return
IncrementStats(c) ==
    /\ completePc[c] = "stats"
    /\ Finish(c, CompletedResult)
    /\ UNCHANGED <<taskStatus, completionRows, callByAssignee>>
    /\ CompleteFrame

NextComplete ==
    \E c \in Calls :
        \/ ReadTask(c)
        \/ ReadTaskFails(c)
        \/ UpdateStatus(c)
        \/ UpdateStatusFails(c)
        \/ InsertCompletion(c)
        \/ InsertCompletionFails(c)
        \/ IncrementStats(c)

SpecComplete == InitComplete /\ [][NextComplete]_vars

----------------------------------------------------------------------------
(* rotateTaskAssignment called several times at once, one action per      *)
(* storage call of a call                                                  *)

\* a task with at least two assignments of which exactly one is current
InitRotate ==
    /\ \E n \in 2..MaxAssignments, k \in 1..MaxAssignments :
          /\ k <= n
          /\ assignments = [i \in 1..n |-> i = k]
          /\ wasCurrent = {k}
    /\ rotatePc = [c \in Calls |-> "read"]
    /\ currentIndex = [c \in Calls |-> 0]
    /\ rotateResult = [c \in Calls |-> NoCallResult]
    /\ DebtIdle
    /\ ScoreIdle
    /\ RoommateIdle
    /\ TaskIdle
    /\ ExpenseIdle
    /\ SettleIdle
    /\ CompleteIdle

RotateFrame ==
    UNCHANGED <<debtVars, scoreVars, roommateVars, taskVars, expenseVars,
                settleVars, completeVars>>

\* a call ends with a result
FinishRotate(c, r) ==
    /\ rotatePc' = [rotatePc EXCEPT ![c] = "done"]
    /\ rotateResult' = [rotateResult EXCEPT ![c] = r]

\* tasks.js lines 242-265: the assignments are read and the current one found
ReadAssignments(c) ==
    /\ rotatePc[c] = "read"
    /\ IF Len(assignments) < 2
       THEN /\ FinishRotate(c, CallError("Not enough assignees for rotation"))
            /\ UNCHANGED currentIndex
       ELSE IF FindCurrent(assignments) = 0
       THEN /\ FinishRotate(c, CallError("No current assignee found"))
            /\ UNCHANGED currentIndex
       ELSE /\ currentIndex' = [currentIndex EXCEPT ![c] = FindCurrent(assignments)]
            /\ rotatePc' = [rotatePc EXCEPT ![c] = "clear"]
            /\ UNCHANGED rotateResult
    /\ UNCHANGED <<assignments, wasCurrent>>
    /\ RotateFrame

\* tasks.js lines 248 and 288-291
ReadAssignmentsFails(c) ==
    /\ rotatePc[c] = "read"
    /\ FinishRotate(c, CallError("assignmentsError"))
    /\ UNCHANGED <<assignments, wasCurrent, currentIndex>>
    /\ RotateFrame

\* tasks.js lines 268-271: is_current: false on the row found current
ClearCurrent(c) ==
    /\ rotatePc[c] = "clear"
    /\ assignments' = [assignments EXCEPT ![currentIndex[c]] = FALSE]
    /\ rotatePc' = [rotatePc EXCEPT ![c] = "set"]
    /\ UNCHANGED <<wasCurrent, currentIndex, rotateResult>>
    /\ RotateFrame

\* tasks.js lines 273 and 288-291
ClearCurrentFails(c) ==
    /\ rotatePc[c] = "clear"
    /\ FinishRotate(c, CallError("updateCurrentError"))
    /\ UNCHANGED <<assignments, wasCurrent, currentIndex>>
    /\ RotateFrame

\* tasks.js lines 276-287: is_current: true on the next row, and the return
SetNext(c) ==
    /\ rotatePc[c] = "set"
    /\ LET nextIndex == NextIndex(currentIndex[c], Len(assignments))
       IN  /\ assignments' = [assignments EXCEPT ![nextIndex] = TRUE]
           /\ wasCurrent' = wasCurrent \cup {nextIndex}
    /\ FinishRotate(c, RotatedResult)
    /\ UNCHANGED currentIndex
    /\ RotateFrame

\* tasks.js lines 281 and 288-291
SetNextFails(c) ==
    /\ rotatePc[c] = "set"
    /\ FinishRotate(c, CallError("updateNextError"))
    /\ UNCHANGED <<assignments, wasCurrent, currentIndex>>
    /\ RotateFrame

NextRotate ==
    \E c \in Calls :
        \/ ReadAssignments(c)
        \/ ReadAssignmentsFails(c)
        \/ ClearCurrent(c)
        \/ ClearCurrentFails(c)
        \/ SetNext(c)
        \/ SetNextFails(c)

SpecRotate == InitRotate /\ [][NextRotate]_vars

----------------------------------------------------------------------------
(* What the input debts say, computed from the raw list alone *)

SumAmounts(s) == FoldLeft(LAMBDA acc, d : acc + d.amount, 0, s)

\* the total u owes v in currency c according to the raw debts
RawDebt(u, v, c) ==
    SumAmounts(SelectSeq(debts, LAMBDA d : /\ d.from_user_id = u
                                           /\ d.to_user_id = v
                                           /\ d.currency = c))

AllUsers == {debts[i].from_user_id : i \in 1..Len(debts)} \cup
            {debts[i].to_user_id : i \in 1..Len(debts)}

AllCurrencies == {debts[i].currency : i \in 1..Len(debts)}

\* what u is owed minus what u owes
RawBalance(u, c) ==
    SumAmounts(SelectSeq(debts, LAMBDA d : d.to_user_id = u /\ d.currency = c))
    - SumAmounts(SelectSeq(debts, LAMBDA d : d.from_user_id = u /\ d.currency = c))

Netted == pc \in {"optimize", "match"}

Returned == pc = "done" /\ "stats" \in result.keys

PairEntries(a, b, c) ==
    {i \in 1..Len(netDebts) :
        /\ netDebts[i].currency = c
        /\ {netDebts[i].from_user_id, netDebts[i].to_user_id} = {a, b}}

\* what the returned settlements pay into and out of u's balance
Paid(u, c) ==
    SumAmounts(SelectSeq(result.settlements, LAMBDA x : x.from = u /\ x.currency = c))

Received(u, c) ==
    SumAmounts(SelectSeq(result.settlements, LAMBDA x : x.to = u /\ x.currency = c))

----------------------------------------------------------------------------
(* Claims *)

\* C1: for every pair A, B and currency, with net = sum(A->B) - sum(B->A),
\* the net-debt list holds A->B with amount round(net, 2) when net exceeds
\* 0.01 (B->A is the same statement with the pair swapped) and holds no
\* entry for the pair when net is within 0.01 of zero.
C1_NetDebtsArePairwiseNets ==
    Netted =>
        \A a \in AllUsers, b \in AllUsers, c \in AllCurrencies :
            a # b =>
                LET net == RawDebt(a, b, c) - RawDebt(b, a, c)
                IN  /\ net > Cent =>
                          /\ Cardinality(PairEntries(a, b, c)) = 1
                          /\ \E i \in PairEntries(a, b, c) :
                                netDebts[i] = NetDebt(a, b, RoundCent(net), c)
                    /\ Abs(net) <= Cent => PairEntries(a, b, c) = {}

\* C2: replaying the returned settlements on the balances of the raw debts
\* (payer up by the amount, payee down by it) leaves every balance within
\* 0.01 of zero.
C2_SettlementsClearRawBalances ==
    Returned =>
        \A u \in AllUsers, c \in AllCurrencies :
            Abs(RawBalance(u, c) + Paid(u, c) - Received(u, c)) <= Cent

\* C3: a currency in which every user's raw balance is zero gets no
\* settlement in the result.
C3_ZeroBalancesNoSettlement ==
    Returned =>
        \A c \in AllCurrencies :
            (\A u \in AllUsers : RawBalance(u, c) = 0) =>
                \A i \in 1..Len(result.settlements) : result.settlements[i].currency # c

\* C4 as stated: the greedy optimization never produces more settlements
\* than there are net debts.
C4_OptimizedCountAtMostOriginal ==
    Returned => result.stats.optimizedCount <= result.stats.originalCount

\* C4 as amended: the settlements returned never number more than the net
\* debts: they number min(optimizedCount, originalCount), with the counts of
\* stats the lengths of the two lists.
C4_ReturnedCountAtMostOriginal ==
    Returned =>
        /\ result.stats.originalCount = Len(netDebts)
        /\ result.stats.optimizedCount = Len(optimizedSettlements)
        /\ Len(result.settlements) = Min(Len(optimizedSettlements), Len(netDebts))
        /\ Len(result.settlements) <= result.stats.originalCount

\* the greedy optimization has produced more settlements than net debts and
\* the net debts are what is returned
C4_Witness ==
    /\ Returned
    /\ result.stats.optimizedCount > result.stats.originalCount
    /\ Len(result.settlements) = result.stats.originalCount

\* C5: the balances computed in the optimization step of a currency sum to
\* zero over the users.
C5_BalancesSumToZero == SumAmounts(balances) = 0

\* balances of three users, not all zero, are being matched
C5_Witness ==
    /\ pc = "match"
    /\ Len(balances) >= 3
    /\ \E i \in 1..Len(balances) : balances[i].amount > Cent

\* C6: after netting each unordered pair has at most one net debt per
\* currency, and of the two graph entries of a pair at most one is positive.
C6_OneNetDebtPerPair ==
    /\ \A i \in 1..Len(netDebts), j \in 1..Len(netDebts) :
          (/\ netDebts[i].currency = netDebts[j].currency
           /\ {netDebts[i].from_user_id, netDebts[i].to_user_id} =
              {netDebts[j].from_user_id, netDebts[j].to_user_id}) => i = j
    /\ \A k \in DOMAIN debtGraph.amt :
          debtGraph.amt[k] > 0 => debtGraph.amt[<<k[2], k[1], k[3]>>] <= 0

\* a pair with raw debts in both directions has its net debt in the list
C6_Witness ==
    /\ Netted
    /\ \E i \in 1..Len(netDebts) :
          /\ RawDebt(netDebts[i].from_user_id, netDebts[i].to_user_id,
                     netDebts[i].currency) > 0
          /\ RawDebt(netDebts[i].to_user_id, netDebts[i].from_user_id,
                     netDebts[i].currency) > 0

\* C7: netting the net-debt list again gives the same list.
C7_NettingIdempotent == Netted => Netting(netDebts) = netDebts

\* the four fields a returned settlement shares with the list it comes from
SameSettlement(x, f, t, a, c, o) ==
    /\ x.from = f /\ x.to = t /\ x.amount = a /\ x.currency = c /\ x.optimized = o

\* C8: the result carries the optimized settlements, flagged optimized, with
\* optimized = true exactly when they are fewer than the net debts; otherwise
\* it carries the net debts, each flagged not optimized, and optimized = false.
C8_OutputSelection ==
    Returned =>
        LET fewer == Len(optimizedSettlements) < Len(netDebts)
        IN  /\ result.success
            /\ result.optimized = fewer
            /\ fewer =>
                  /\ Len(result.settlements) = Len(optimizedSettlements)
                  /\ \A i \in 1..Len(optimizedSettlements) :
                        SameSettlement(result.settlements[i],
                                       optimizedSettlements[i].from,
                                       optimizedSettlements[i].to,
                                       optimizedSettlements[i].amount,
                                       optimizedSettlements[i].currency, TRUE)
            /\ ~fewer =>
                  /\ Len(result.settlements) = Len(netDebts)
                  /\ \A i \in 1..Len(netDebts) :
                        SameSettlement(result.settlements[i],
                                       netDebts[i].from_user_id,
                                       netDebts[i].to_user_id,
                                       netDebts[i].amount,
                                       netDebts[i].currency, FALSE)

\* optimized settlements, fewer than the net debts, have been returned
C8_Witness ==
    /\ Returned
    /\ result.optimized
    /\ Len(result.settlements) >= 1
    /\ Len(result.settlements) < Len(netDebts)

\* C9: no net debt, no optimized settlement and so no returned settlement
\* has an amount below 0.01.
C9_AmountsAtLeastOneCent ==
    /\ \A i \in 1..Len(netDebts) : netDebts[i].amount >= Cent
    /\ \A i \in 1..Len(optimizedSettlements) : optimizedSettlements[i].amount >= Cent
    /\ \A i \in 1..Len(result.settlements) : result.settlements[i].amount >= Cent

\* settlements were returned for debts some of which are below one cent
C9_Witness ==
    /\ Returned
    /\ Len(result.settlements) >= 1
    /\ \E i \in 1..Len(debts) : debts[i].amount < Cent

\* C10: a debt record without currency or with a negative amount makes the
\* call fail, with no settlements.
C10_MalformedDebtFails ==
    (pc = "done" /\ \E i \in 1..Len(debts) :
                        debts[i].currency = NoCurrency \/ debts[i].amount < 0)
        => (~result.success /\ result.settlements = <<>>)

\* the entries of a list that are in currency c
InCurrency(s, c) == SelectSeq(s, LAMBDA x : x.currency = c)

AsSet(s) == {s[i] : i \in 1..Len(s)}

\* who pays whom how much, without the flags
Payments(s) == {<<s[i].from, s[i].to, s[i].amount>> : i \in 1..Len(s)}

\* C11 as stated: the returned settlements in a currency depend only on the
\* debts in that currency: an input and the same input without the debts of
\* the other currencies yield the same payments in it.
C11_ReturnedDependsOnOwnCurrency ==
    Returned =>
        \A c \in AllCurrencies :
            Payments(InCurrency(result.settlements, c))
              = Payments(InCurrency(SimplifiedDebts(InCurrency(debts, c)).settlements, c))

\* C11, amended: the net debts of a currency and the balances its
\* optimization pass starts from depend only on the debts in that currency:
\* they are those of the input without the debts of the other currencies.
\* Which list is returned is decided by counts over all currencies.
C11_NetDebtsDependOnOwnCurrency ==
    /\ (Netted \/ Returned) =>
          \A c \in AllCurrencies :
              AsSet(InCurrency(netDebts, c))
                = AsSet(InCurrency(Netting(InCurrency(debts, c)), c))
    /\ pc = "match" =>
          AsSet(balances)
            = AsSet(ComputeBalances(Netting(InCurrency(debts, Head(todo))), Head(todo)))

\* two currencies with a net debt each, the second one's pass under way
C11_Witness ==
    /\ pc = "match"
    /\ Head(todo) = "EUR"
    /\ Len(InCurrency(netDebts, "USD")) > 0
    /\ Len(InCurrency(netDebts, "EUR")) > 0
    /\ Len(balances) = 2

----------------------------------------------------------------------------
(* Claims about the queries and the matching loop of getSimplifiedDebts *)

Failed(name) == \E i \in 1..Len(queries) : queries[i] = Query(name, TRUE)

\* C21: if the group-debt query or the profile query fails, getSimplifiedDebts
\* returns success = false with the error and no settlements; each query is
\* sent at most once per call.
C21_FailedQueryFailsTheCall ==
    /\ pc = "done" /\ (Failed("get_all_group_debts") \/ Failed("profiles")) =>
          /\ result.keys = {"success", "error"}
          /\ ~result.success
          /\ result.settlements = <<>>
    /\ \A i, j \in 1..Len(queries) : i < j => queries[i].query # queries[j].query

\* the profile query failed after settlements had been computed
C21_Witness ==
    /\ pc = "done"
    /\ queries = <<Query("get_all_group_debts", FALSE), Query("profiles", TRUE)>>
    /\ Len(optimizedSettlements) > 0

\* C22: when the debt query comes back without error and with no debts, the
\* call returns success = true with an empty settlement list, not a failure.
C22_NoDebtsIsSuccess ==
    pc = "done" /\ Len(debts) = 0 /\ ~Failed("get_all_group_debts") =>
        /\ result.success
        /\ result.keys = {"success", "settlements"}
        /\ result.settlements = <<>>

C22_Witness ==
    /\ pc = "done"
    /\ Len(debts) = 0
    /\ queries = <<Query("get_all_group_debts", FALSE)>>

Largest(list) == \A i \in 1..Len(list) : list[1].amount >= list[i].amount

\* C23: at every iteration of the matching loop, the creditor and the debtor
\* that are matched (the heads of the lists) have the largest remaining
\* amounts among the creditors and the debtors still in their lists.
C23_MatchedAreLargest ==
    pc = "match" /\ Len(creditors) > 0 /\ Len(debtors) > 0 =>
        Largest(creditors) /\ Largest(debtors)

\* the optimized settlements of the currency whose pass is running
PassSettlements == SelectSeq(optimizedSettlements, LAMBDA x : x.currency = Head(todo))

PassPaid(u) == SumAmounts(SelectSeq(PassSettlements, LAMBDA x : x.from = u))

PassReceived(u) == SumAmounts(SelectSeq(PassSettlements, LAMBDA x : x.to = u))

BalanceOf(u) == balances[IndexOf(balances, u)].amount

PassOver == pc = "match" /\ (Len(creditors) = 0 \/ Len(debtors) = 0)

\* C24: when the pass of a currency is over, for every user the optimized
\* settlements received minus those paid equal the user's balance computed
\* from the net debts, within 0.01; every settlement goes from a user with
\* negative balance to a user with positive balance; no user pays themselves.
C24_PassDischargesBalances ==
    PassOver =>
        /\ \A i \in 1..Len(balances) :
              Abs(PassReceived(balances[i].id) - PassPaid(balances[i].id)
                  - balances[i].amount) <= Cent
        /\ \A i \in 1..Len(PassSettlements) :
              /\ BalanceOf(PassSettlements[i].from) < 0
              /\ BalanceOf(PassSettlements[i].to) > 0
              /\ PassSettlements[i].from # PassSettlements[i].to

Remaining == Len(creditors) + Len(debtors)

\* C25: every iteration of the matching loop removes at least one creditor
\* or one debtor from its list, so the loop runs at most as many iterations
\* as there are creditors and debtors; and the loop ends with a list empty.
C25_LoopTerminates ==
    /\ [][GreedyStep => Remaining' < Remaining]_vars
    /\ (pc = "match") ~> PassOver

\* a pass of two iterations that is over
C25_Witness ==
    /\ PassOver
    /\ Len(PassSettlements) = 2
    /\ Len(CreditorsOf(balances)) + Len(DebtorsOf(balances)) = 3

----------------------------------------------------------------------------
(* Claims about the scorers *)

TaskScored == "total" \in DOMAIN metrics /\ computedScore # NoScore

ExpenseScored == "totalShares" \in DOMAIN metrics /\ computedScore # NoScore

\* C12: the task score and the expense score are integers between 0 and 100
\* for every metrics input, also when helpfulness exceeds 100, completed
\* exceeds total, or the penalties outweigh the positive terms.
C12_ScoresWithinRange ==
    (TaskScored \/ ExpenseScored) => computedScore \in 0..100

\* completed above total, helpfulness above 100, and the upper clamp at work
C12_Witness ==
    /\ TaskScored
    /\ metrics.completed > metrics.total
    /\ RLess(Num(100), metrics.helpfulness)
    /\ metrics.total > 0
    /\ computedScore = 100

\* C14: calculateExpenseScore returns 50 whenever totalShares and
\* contributedExpenses are both 0, and calculatePerformanceScore returns 50
\* whenever total is 0, whatever the other fields hold.
C14_NeutralFifty ==
    /\ (TaskScored /\ metrics.total = 0) => computedScore = 50
    /\ (ExpenseScored /\ metrics.totalShares = 0 /\ metrics.contributedExpenses = 0)
           => computedScore = 50

\* no tasks assigned, yet the other fields would give another score
C14_Witness ==
    /\ TaskScored
    /\ metrics.total = 0
    /\ metrics.completed > 0
    /\ metrics.onTimePercentage = 100
    /\ computedScore = 50

\* the weighted sum of the statement as numerator and denominator:
\* 0.40 * max(0, completed - issues) / total * 100 + 0.25 * onTimePercentage
\* + 0.15 * helpfulness - 0.10 * missed / total * 100
\* - 0.10 * issues / completed * 100 - 0.05 * max(0, swapped / total - 0.20) * 50
\* over the denominator 20 * total * completed * helpfulness.d
StatedTaskDenominator(m) ==
    20 * m.total * (IF m.completed > 0 THEN m.completed ELSE 1) * m.helpfulness.d

StatedTaskNumerator(m) ==
    LET cc == IF m.completed > 0 THEN m.completed ELSE 1
        hd == m.helpfulness.d
    IN  800 * cc * hd * Max(0, m.completed - m.issues)
        + 5 * m.total * cc * hd * m.onTimePercentage
        + 3 * m.total * cc * m.helpfulness.n
        - 200 * cc * hd * m.missed
        - (IF m.completed > 0 THEN 200 * m.total * hd * m.issues ELSE 0)
        - 10 * cc * hd * Max(0, 5 * m.swapped - m.total)

\* C15: for total > 0 the task score is round(0.40 * completionScore
\* + 0.25 * onTimeScore + 0.15 * helpfulnessScore - 0.10 * missPenalty
\* - 0.10 * issuePenalty - 0.05 * swapPenalty) clamped to [0, 100], with
\* completionScore = max(0, completed - issues) / total * 100,
\* missPenalty = missed / total * 100, issuePenalty = issues / completed * 100
\* (0 when completed is 0) and swapPenalty = max(0, swapped / total - 0.20) * 50.
C15_TaskScoreFormula ==
    (TaskScored /\ metrics.total > 0) =>
        computedScore =
            Max(0, Min(100, (2 * StatedTaskNumerator(metrics)
                             + StatedTaskDenominator(metrics))
                            \div (2 * StatedTaskDenominator(metrics))))

\* every term of the sum is at work and no clamp is
C15_Witness ==
    /\ TaskScored
    /\ metrics.total > 0
    /\ metrics.completed > metrics.issues
    /\ metrics.issues > 0
    /\ metrics.missed > 0
    /\ 5 * metrics.swapped > metrics.total
    /\ metrics.onTimePercentage > 0
    /\ metrics.helpfulness.n > 0
    /\ computedScore \in 1..99

\* min(100, rate) as a numerator over the rate's denominator
CappedNumerator(rate) == IF rate.n >= 100 * rate.d THEN 100 * rate.d ELSE rate.n

\* 0.5 * (0.7 * min(100, paymentRate) + 0.3 * min(100, promptnessRate))
\* + 0.3 * contributionScore + 0.2 * settlementScore, over the denominator
\* 100 * paymentRate.d * promptnessRate.d
StatedExpenseDenominator(m) == 100 * m.paymentRate.d * m.promptnessRate.d

StatedExpenseNumerator(m) ==
    35 * CappedNumerator(m.paymentRate) * m.promptnessRate.d
    + 15 * CappedNumerator(m.promptnessRate) * m.paymentRate.d
    + (30 * ContributionScore(m.contributedExpenses)
       + 20 * SettlementScore(m.initiatedSettlements))
      * m.paymentRate.d * m.promptnessRate.d

\* C16: outside the neutral case the expense score is
\* round(0.5 * paymentRateScore + 0.3 * contributionScore
\* + 0.2 * settlementScore) clamped to [0, 100], with
\* paymentRateScore = 0.7 * min(100, paymentRate) + 0.3 * min(100, promptnessRate).
C16_ExpenseScoreFormula ==
    (ExpenseScored /\ ~(metrics.totalShares = 0 /\ metrics.contributedExpenses = 0)) =>
        computedScore =
            Max(0, Min(100, (2 * StatedExpenseNumerator(metrics)
                             + StatedExpenseDenominator(metrics))
                            \div (2 * StatedExpenseDenominator(metrics))))

\* a payment rate above 100 is capped, the other rate is a fraction
C16_Witness ==
    /\ ExpenseScored
    /\ metrics.totalShares > 0
    /\ RLess(Num(100), metrics.paymentRate)
    /\ metrics.promptnessRate = Frac(100, 3)
    /\ metrics.contributedExpenses = 1
    /\ metrics.initiatedSettlements = 1
    /\ computedScore = 73

----------------------------------------------------------------------------
(* Claims about calculateRoommateScore *)

RoommateScored == roommatePc = "done" /\ "score" \in roommateScore.keys

\* C13: the score calculateRoommateScore returns lies in [0, 100] for every
\* payment history and task history, also for a user with no payment history
\* or no completed tasks.
C13_RoommateScoreWithinRange ==
    RoommateScored => roommateScore.score \in 0..100

\* C20 (calculateRoommateScore): when a query of the call failed, the call
\* reports a failure and returns no score.
C20_FailedQueryGivesNoScore ==
    (roommatePc = "done" /\ failedQueries # {}) => "score" \notin roommateScore.keys

----------------------------------------------------------------------------
(* Claims about the performance lists *)

Entries(r) == {r.performance[i] : i \in 1..Len(r.performance)}

\* C17: the on-time ratio fed into the score is 100 when the user has no
\* completed obligations: onTimePercentage is 100 for a user with no task
\* completions and promptnessRate is 100 for a user with no paid shares;
\* otherwise it is the on-time count divided by the completed count.
C17_OnTimeRatioDefault ==
    /\ \A e \in Entries(taskPerformance) :
          e.onTimePercentage =
              IF taskCompletions[e.userId].total = 0 THEN 100
              ELSE MathRound(Frac(100 * taskCompletions[e.userId].onTime,
                                  taskCompletions[e.userId].total))
    /\ \A e \in Entries(expensePerformance) :
          e.metrics.promptnessRate =
              IF PaidShares(expenseShares[e.userId]) = 0 THEN Num(100)
              ELSE Frac(100 * PromptPayments(expenseShares[e.userId]),
                        PaidShares(expenseShares[e.userId]))

\* C18: the performance list returned by getExpensePerformance and by
\* getRoommateTaskPerformance is ordered by non-increasing score: no entry has
\* a higher score than an entry before it.
C18_ListsSortedByScore ==
    /\ \A i, j \in 1..Len(taskPerformance.performance) :
          i < j => taskPerformance.performance[i].score
                     >= taskPerformance.performance[j].score
    /\ \A i, j \in 1..Len(expensePerformance.performance) :
          i < j => expensePerformance.performance[i].score
                     >= expensePerformance.performance[j].score

\* a returned list in which the sort moved a later member in front
C18_Witness ==
    /\ expensePerformance.success
    /\ Len(expensePerformance.performance) >= 2
    /\ expensePerformance.performance[1].userId > expensePerformance.performance[2].userId
    /\ expensePerformance.performance[1].score > expensePerformance.performance[2].score

\* C19: the metrics total, completed and missed that
\* getRoommateTaskPerformance feeds into the score equal the current counts
\* of the user's assigned, completed and missed tasks, after any sequence of
\* task creations, completions, status changes and getUserTaskStats calls.
C19_MetricsAreCurrentCounts ==
    \A e \in Entries(taskPerformance) :
        /\ e.metrics.total = TotalTasks(tasks, e.userId)
        /\ e.metrics.completed = CompletedTasks(tasks, e.userId)
        /\ e.metrics.missed = MissedTasks(tasks, e.userId)

----------------------------------------------------------------------------
(* Claims about recordSettlement *)

\* the rows the call has changed so far
Changed == {i \in 1..Len(expense_shares) : expense_shares[i] # sharesBefore[i]}

\* the rows it has marked paid and the row it has reduced
MarkedPaid == {i \in 1..Len(expense_shares) : expense_shares[i].paid /\ ~sharesBefore[i].paid}

Reduced == {i \in 1..Len(expense_shares) : expense_shares[i].amount # sharesBefore[i].amount}

RECURSIVE SumBefore(_)
SumBefore(S) ==
    IF S = {} THEN 0
    ELSE LET i == CHOOSE x \in S : TRUE
         IN  sharesBefore[i].amount + SumBefore(S \ {i})

RECURSIVE SumReduction(_)
SumReduction(S) ==
    IF S = {} THEN 0
    ELSE LET i == CHOOSE x \in S : TRUE
         IN  sharesBefore[i].amount - expense_shares[i].amount + SumReduction(S \ {i})

PayerUnpaidBefore ==
    {i \in 1..Len(sharesBefore) :
        sharesBefore[i].user_id = settlementData.from_user_id /\ ~sharesBefore[i].paid}

\* C26: recordSettlement only modifies unpaid shares that the payer
\* from_user_id owes to the payee to_user_id; unpaid shares the payer owes
\* to any other user are left unchanged.
C26_OnlySharesBetweenTheTwo ==
    \A i \in Changed :
        /\ sharesBefore[i].user_id = settlementData.from_user_id
        /\ sharesBefore[i].created_by = settlementData.to_user_id
        /\ ~sharesBefore[i].paid

\* the rows changed take up the settlement amount, oldest first
AppliedExactly ==
    /\ SumBefore(MarkedPaid) + SumReduction(Reduced)
          = Min(settlementData.amount, SumBefore(PayerUnpaidBefore))
    /\ Cardinality(Reduced) <= 1
    /\ \A i \in 1..Len(expense_shares) : expense_shares[i].amount >= 0
    /\ \A i, j \in PayerUnpaidBefore : i < j /\ j \in Changed => i \in MarkedPaid

\* C27: a call of recordSettlement whose query and updates of expense_shares
\* went through (every call that returns success is one) has applied exactly
\* the settlement amount to the payer's unpaid shares, oldest first: the
\* amounts of the shares marked paid plus the reduction of the one partly
\* covered share are min(settlement amount, total of the payer's unpaid
\* shares), at most one share is reduced and no amount is negative.
C27_AppliesTheAmountOldestFirst ==
    settlePc \in {"record", "done"} /\ failedStep \in {"none", "settlement"}
        => AppliedExactly

\* one share marked paid, the next one reduced
C27_Witness ==
    /\ settlePc = "done"
    /\ settleResult.success
    /\ Cardinality(MarkedPaid) = 1
    /\ Cardinality(Reduced) = 1

\* C28: if recordSettlement returns success = false, no expense share has
\* been modified by the call; shares are modified only in calls that also
\* insert the expense_settlements record and return success.
C28_FailureLeavesSharesAlone ==
    settlePc = "done" =>
        /\ ~settleResult.success => Changed = {}
        /\ Changed # {} => settleResult.success /\ Len(expenseSettlements) = 1

----------------------------------------------------------------------------
(* Claims about calls made at once *)

AllCompleteCallsDone == \A c \in Calls : completePc[c] = "done"

\* C29: however many markTaskComplete calls the assignee makes on a task,
\* one after the other or at once, at most one task_completions row is
\* inserted for it, and once the calls have finished a task whose status
\* is 'completed' has exactly one such row.
C29_OneCompletionRow ==
    /\ completionRows <= 1
    /\ AllCompleteCallsDone /\ taskStatus = "completed" => completionRows = 1

AllRotateCallsDone == \A c \in Calls : rotatePc[c] = "done"

CurrentOnes == {i \in 1..Len(assignments) : assignments[i]}

\* C30: for a task with at least two assignments of which exactly one is
\* current, when rotateTaskAssignment calls made at once have all finished,
\* exactly one assignment has is_current = true, and (when a call has
\* rotated) it is the successor in rotation order, wrapping around, of one
\* that was current before.
C30_ExactlyOneCurrent ==
    AllRotateCallsDone =>
        /\ Cardinality(CurrentOnes) = 1
        /\ (\E c \in Calls : rotateResult[c].success) =>
              \A i \in CurrentOnes :
                  \E k \in wasCurrent : i = NextIndex(k, Len(assignments))

====
